---- MODULE Spec2Model ----
(***************************************************************************)
(* HedgePy: the request pipeline of the broker (server/bases/Server.py)    *)
(* and the getter decorators RateLimiter and TimeChunker                   *)
(* (common/bases/API.py), as state machines.                               *)
(*                                                                         *)
(* The components, each with its own specification over the same          *)
(* variables:                                                              *)
(*   Spec / FairSpec  the HTTP handlers and the pipeline loop of Server    *)
(*   SpecRL           one RateLimiter and the calls made to it             *)
(*   SpecTC           one TimeChunker call                                 *)
(*   SpecRM           the RequestManager of server/bases.py                *)
(*   SpecGetter       the calls made to one Getter and its lock            *)
(*   SpecClient       BaseClient: connect, handshake, disconnect           *)
(*   SpecApp / FairSpecApp   App.put and App.get over a client             *)
(*   SpecDiff         routines.diff and routines.plan                      *)
(***************************************************************************)
EXTENDS Integers, Sequences, FiniteSets, TLC

(***************************************************************************)
(* Bounds of the model.                                                    *)
(***************************************************************************)
\* corr_ids the vendor's corr_id_fn hands out before the model stops posting
MaxPosts == 3
\* calls made to the RateLimiter
RLCalls == 3
\* the largest max_requests a RateLimiter is constructed with
RLMaxRequests == 2
\* RateLimiter.interval, in ticks of the clock
RLInterval == 2
\* the clock stops here
MaxTime == 4
\* the latest end of a request given to the TimeChunker, in units of time
TCMaxEnd == 7
\* the coarsest resolution of a request given to the TimeChunker
TCMaxResolution == 2
\* tasks put on the queues of the RequestManager
MaxTasks == 4
\* calls made to the Getter
GetterCalls == 3
\* the most sub-requests one call of the composed getter makes
MaxChunks == 2
\* BaseClient.MAX_RETRIES (100 in the source), scaled down
MAX_RETRIES == 2
\* clients App._ainit constructs
MaxConnects == 2
\* ids Connection.next_request_id hands out
MaxRequestIds == 3
\* tuples the upstream sends for one request_id
MaxTuples == 2
\* calls of App.get
AppGets == 2
\* the latest date of a date_range
MaxDate == 4
\* the most items in the "templates" array of a template, and in a schedule
MaxItems == 2
\* the longest resolution of a Request: whole days, and half hours above them
MaxResolutionDays == 2
MaxHalfHours == 2
\* the latest DAEMON_STOP and the longest DAEMON_INTERVAL, in units of time
MaxStop == 3
MaxInterval == 2
\* messages the broker sends, and the most it sends at once
MaxMessages == 6
MaxBurst == 3

(***************************************************************************)
(* Values.                                                                 *)
(***************************************************************************)
\* the vendors load_vendors found, and the getters of each
Vendors == {"V"}
Getters == {"E", "F"}
\* what a POST body may name
BodyVendors == {"V", "X"}
BodyEndpoints == {"E", "F", "Z"}
\* params.resource of a POST body: absent, a handle of a known resource class,
\* a handle naming no class of the vendor
BodyResources == {"none", "ok", "bad"}
CorrIds == 1..MaxPosts
NoCorrId == 0
NoRequest == [vendor |-> "", endpoint |-> "", corr_id |-> NoCorrId, urgent |-> FALSE]

VARIABLES
    \* ---- Server (server/bases/Server.py)
    running,         \* LogicMixin._running
    pipeline,        \* where LogicMixin.run is: "stopped", "idle" (between two
                     \* cycles), "getter" (cycle awaits fn(...)), "dead" (run
                     \* was left by an exception)
    request,         \* the local `request` of Server.cycle
    request_queue,   \* LogicMixin._request_queue, an asyncio.Queue
    responses,       \* LogicMixin._responses, the ResponseManager's dict
    request_id,      \* the counter behind vendor.corr_id_fn(vendor.app)
    vendorUp,        \* the vendor's session is connected
    issued,          \* history: corr_ids a POST returned to its client
    raised,          \* history: corr_ids whose getter or formatter raised
    delivered,       \* history: corr_id -> number of GETs answered 200 with it
    lastHttp,        \* history: the last HTTP exchange the handler completed
    \* ---- RateLimiter (common/bases/API.py)
    now,             \* the clock dtwrapper.now() reads
    max_requests,    \* the deque's maxlen; 0 before the RateLimiter is constructed
    history,         \* RateLimiter.history
    rlpc,            \* per call of __call__: "idle", "sleep", "target", "done"
    rlTime,          \* per call: its local `time`
    rlWake,          \* per call: when its asyncio.sleep ends
    invoked,         \* history: the pairs <<call, time>> at which target.__call__ began
    \* ---- TimeChunker (common/bases/API.py)
    tcpc,            \* where __call__ is: "idle", "schedule" (the for loop of
                     \* line 328), "chunk" (inside _chunk), "done"
    tcRequest,       \* the `request` of __call__
    chunk_schedule,  \* TimeChunker.chunk_schedule, in insertion order
    tcIndex,         \* the entry of chunk_schedule the for loop is at
    tcLoop,          \* iterations left of the for loop of _chunk
    chunkRequest,    \* the local `request` of _chunk, rebound in its loop
    request_start,   \* local of _chunk
    request_end,     \* local of _chunk
    chunkCorrId,     \* the local `corr_id` of _chunk
    tcNextCorrId,    \* the counter behind TimeChunker._corr_id_fn
    tcResponses,     \* `responses`: NoResponses (None) or the dict of _chunk
    dispatched,      \* history: the requests passed to target.__call__, in order
    tcResult,        \* what __call__ returned
    \* ---- RequestManager (server/bases.py)
    rmRunning,       \* RequestManager._running
    rmpc,            \* where RequestManager.run is: "stopped", "cycle" (at the
                     \* start of cycle), "sleep" (the sleep that ends cycle),
                     \* "dead" (run was left by an exception)
    task_queue_urgent,   \* the list under RequestManager._task_queue_urgent
    task_queue_normal,   \* the list under RequestManager._task_queue_normal
    rmNextTask,      \* the Tasks made so far
    rmTaken,         \* history: the Tasks _poll_queue returned, in order
    \* ---- Getter (common/bases/API.py)
    gLocked,         \* Getter._lock: locked
    gWaiters,        \* Getter._lock: the calls waiting in acquire, oldest first
    gpc,             \* per call: "idle", "limiter" (in the decorators above
                     \* the Getter), "waiting" (in acquire), "raw" (inside
                     \* the raw endpoint function), "done"
    gKind,           \* how the getter was built: "none" (not yet), "plain"
                     \* (Getter(raw)), "composed"
                     \* (TimeChunker(RateLimiter(Getter(raw))))
    gChunks,         \* per call: sub-requests the TimeChunker has yet to make
    \* ---- BaseClient and Connection (common/vendors/ibkr/bases.py)
    clientpc,        \* where App._ainit / BaseClient.connect is: "none" (no
                     \* client yet), "open" (awaits open_connection),
                     \* "handshake" (awaits the reads of handshake),
                     \* "started" (connect returned), "failed" (connect raised)
    connState,       \* BaseClient.connState
    reader,          \* Connection._reader is not None
    writer,          \* Connection._writer is not None
    serverVersion_,  \* BaseClient.serverVersion_; 0 is None
    connTime,        \* BaseClient.connTime: the attempt whose reply gave it; 0 is None
    retry,           \* the `retry` of the innermost handshake frame
    started,         \* BaseClient._started
    startApiSent,    \* history: START_API was written
    lastCall,        \* history: how the last call of connect or disconnect ended
    connects,        \* history: for each client constructed so far, how the
                     \* last call before its construction had ended
    connRequestId,   \* Connection.request_id
    issuedIds,       \* history: what next_request_id returned, in order, each
                     \* with the number of the client it was returned to
    \* ---- App (common/vendors/ibkr/bases.py)
    appResponses,    \* App.responses: request_id -> list of tuples
    getpc,           \* per call of App.get: "idle", "waiting" (in wait_for), "returned"
    getId,           \* per call of App.get: its request_id
    getResult,       \* per call of App.get: what it returned
    sent,            \* history: request_id -> the tuples put under it, in order
    ended,           \* history: request_id -> the upstream signalled end-of-data
    getEnded,        \* history: per call of App.get, `ended` of its id when it returned
    \* ---- routines.diff and routines.plan (server/routines)
    diffpc,          \* "idle", "diffed" (diff was called), "planned"
    diffExpected,    \* the `expected` diff was called with
    diffActual,      \* the `actual` diff was called with
    diffResult,      \* what diff returned, or that it raised
    planRequests,    \* what plan returned for diff's missing
    routine,         \* the function that was called: "none" before the call
    routineInput,    \* the arguments it was called with
    routineOutput,   \* what it returned, or that it raised
    daemonpc,        \* where the Daemon is: "new", "constructed", "ready"
                     \* (set_schedule was called), "offset" (in the first
                     \* sleep of run), "loop" (at the while test), "sleep"
                     \* (in the sleep that ends an iteration), "returned",
                     \* "raised" (run ended with an exception)
    daemonRunning,   \* Daemon._running
    daemonCycle,     \* Daemon._cycle
    daemonSchedule,  \* Daemon._schedule: start, stop, interval and items
    sessionClosed,   \* Daemon._session was closed
    posted,          \* history: the pairs <<cycle, item>> posted, in order
    \* ---- Connection and BaseClient.recv (common/vendors/ibkr/bases.py)
    sockPending,     \* the messages the socket holds for the next read, in order
    sockEof,         \* the broker closed its end
    connBuffer,      \* Connection.buffer, as the messages it holds
    decoded,         \* history: the messages handed to decoder.interpret, in order
    arrived,         \* history: how many messages the broker has sent
    recvResult,      \* what the last call of recv returned: "none" before any
    \* ---- BaseConsumer (common/bases/Consumer.py)
    consumerpc,      \* "idle", "posted" (post returned a corr_id), "returned"
                     \* (get returned), "raised"
    consumerRequest, \* the Request post was called with
    consumerCorrId,  \* the corr_id post returned, or get was called with
    consumerResult   \* what get returned

serverVars == <<running, pipeline, request, request_queue, responses, request_id,
                vendorUp, issued, raised, delivered, lastHttp>>

rlVars == <<now, max_requests, history, rlpc, rlTime, rlWake, invoked>>

tcVars == <<tcpc, tcRequest, chunk_schedule, tcIndex, tcLoop, chunkRequest,
            request_start, request_end, chunkCorrId, tcNextCorrId, tcResponses,
            dispatched, tcResult>>

rmVars == <<rmRunning, rmpc, task_queue_urgent, task_queue_normal, rmNextTask, rmTaken>>

getterVars == <<gLocked, gWaiters, gpc, gKind, gChunks>>

clientVars == <<clientpc, connState, reader, writer, serverVersion_, connTime, retry,
                started, startApiSent, lastCall, connects, connRequestId, issuedIds>>

appVars == <<appResponses, getpc, getId, getResult, sent, ended, getEnded>>

diffVars == <<diffpc, diffExpected, diffActual, diffResult, planRequests>>

\* the pipeline and its decorators
coreVars == <<serverVars, rlVars, tcVars>>

\* the components outside the pipeline and its decorators
routineVars == <<routine, routineInput, routineOutput>>

daemonVars == <<daemonpc, daemonRunning, daemonCycle, daemonSchedule, sessionClosed, posted>>

recvVars == <<sockPending, sockEof, connBuffer, decoded, arrived, recvResult>>

consumerVars == <<consumerpc, consumerRequest, consumerCorrId, consumerResult>>

extraVars == <<routineVars, daemonVars, recvVars, consumerVars>>

outerVars == <<rmVars, getterVars, clientVars, appVars, diffVars, extraVars>>

vars == <<coreVars, outerVars>>

(***************************************************************************)
(* Server: construction.                                                   *)
(***************************************************************************)
NoHttp == [method |-> "", status |-> 0, vendor |-> "", endpoint |-> "",
           resource |-> "", json |-> TRUE, corr_id |-> NoCorrId,
           allocated |-> NoCorrId, appended |-> <<>>,
           present |-> FALSE, removed |-> FALSE, storeSame |-> TRUE, body |-> "none"]

\* API.Response: the request it answers (by its corr_id) and the data
Response(c, d) == [corr_id |-> c, data |-> d]

\* Server.__init__: _cleanup, load_vendors
ServerInit ==
    /\ running = FALSE
    /\ pipeline = "stopped"
    /\ request = NoRequest
    /\ request_queue = <<>>
    /\ responses = [c \in {} |-> Response(c, "rows")]
    /\ request_id = 0
    /\ vendorUp = TRUE
    /\ issued = {}
    /\ raised = {}
    /\ delivered = [c \in CorrIds |-> 0]
    /\ lastHttp = NoHttp

\* the keys of the ResponseManager
Stored == DOMAIN responses

\* LogicMixin.start_loop
StartLoop ==
    /\ pipeline = "stopped"
    /\ running' = TRUE
    /\ pipeline' = "idle"
    /\ UNCHANGED <<request, request_queue, responses, request_id, vendorUp,
                   issued, raised, delivered, lastHttp>>
    /\ UNCHANGED <<rlVars, tcVars, outerVars>>

(***************************************************************************)
(* ResponseManager (a UserDict whose __getitem__, __setitem__ and pop are  *)
(* coroutines).  Its lock is held over synchronous dict operations only,   *)
(* so no task ever finds it taken and each operation is one step.          *)
(***************************************************************************)
\* ResponseManager.__setitem__ (= set)
ResponseManagerSet(store, key, value) ==
    [c \in (DOMAIN store) \cup {key} |-> IF c = key THEN value ELSE store[c]]

\* The dict after ResponseManager.pop(key): MutableMapping.pop deletes the key
ResponseManagerPopStore(store, key) ==
    [c \in (DOMAIN store) \ {key} |-> store[c]]

\* What ResponseManager.pop(key) returns: MutableMapping.pop returns self[key],
\* and self[key] is the coroutine function __getitem__, so the value is a
\* coroutine object that nobody awaited, not the stored Response.
ResponseManagerPopValue(store, key) == [kind |-> "coroutine", of |-> store[key]]

\* response.js() in _handle_get: only a Response has it
HasJs(value) == value.kind = "response"

(***************************************************************************)
(* Server._handle_post, under BaseServer._handler.                         *)
(***************************************************************************)
\* API.Request.decode(request_js).bind_resource(resource)
RequestDecode(vendor, endpoint, corr_id, urgent) ==
    [vendor |-> vendor, endpoint |-> endpoint, corr_id |-> corr_id, urgent |-> urgent]

\* self.vendors[vendor].resources[cls_name]
KnownResource(resource) == resource = "ok"

\* vendor.corr_id_fn(vendor.app): the broker's next_request_id
NextRequestId(counter) == counter + 1

\* The status _handle_post ends with, for a body: every exception of the
\* handler is turned into 500 by _handler, and a returned json_response is 200.
PostStatus(json, vendor, resource) ==
    IF ~json THEN 500                       \* request.json() raises
    ELSE IF vendor \notin Vendors THEN 500  \* self.vendors[...] raises KeyError
    ELSE IF resource = "none" THEN 500      \* `resource` is unbound at line 220
    ELSE IF ~KnownResource(resource) THEN 500   \* resources[cls_name] raises
    ELSE 200

\* Whether _handle_post got as far as calling vendor.corr_id_fn
PostAllocates(json, vendor) == json /\ vendor \in Vendors

\* _handle_post on the server's state
HandlePostBody(json, vendor, endpoint, resource, urgent) ==
    LET status == PostStatus(json, vendor, resource)
        corr_id == NextRequestId(request_id)
    IN  /\ running
        /\ PostAllocates(json, vendor) => request_id < MaxPosts
        /\ request_id' = IF PostAllocates(json, vendor) THEN corr_id ELSE request_id
        /\ request_queue' =
              IF status = 200
              THEN Append(request_queue, RequestDecode(vendor, endpoint, corr_id, urgent))
              ELSE request_queue
        /\ issued' = IF status = 200 THEN issued \cup {corr_id} ELSE issued
        /\ lastHttp' = [NoHttp EXCEPT !.method = "POST", !.status = status,
                           !.vendor = vendor, !.endpoint = endpoint,
                           !.resource = resource, !.json = json,
                           !.corr_id = IF status = 200 THEN corr_id ELSE NoCorrId,
                           !.allocated = IF PostAllocates(json, vendor)
                                         THEN corr_id ELSE NoCorrId,
                           !.appended = SubSeq(request_queue', Len(request_queue) + 1,
                                               Len(request_queue'))]
        /\ UNCHANGED <<running, pipeline, request, responses, vendorUp, raised, delivered>>

HandlePost(json, vendor, endpoint, resource, urgent) ==
    /\ HandlePostBody(json, vendor, endpoint, resource, urgent)
    /\ UNCHANGED <<rlVars, tcVars, outerVars>>

(***************************************************************************)
(* Server._handle_get, under BaseServer._handler.                          *)
(***************************************************************************)
\* GET {corr_id: c}: `corr_id in self.responses`, then pop and response.js()
HandleGetBody(c) ==
    LET present == c \in Stored
        value == ResponseManagerPopValue(responses, c)
        status == IF ~present THEN 404 ELSE IF HasJs(value) THEN 200 ELSE 500
    IN  /\ running
        /\ responses' = IF present THEN ResponseManagerPopStore(responses, c) ELSE responses
        /\ delivered' = IF status = 200 THEN [delivered EXCEPT ![c] = @ + 1] ELSE delivered
        /\ lastHttp' = [NoHttp EXCEPT !.method = "GET", !.status = status,
                           !.corr_id = c, !.present = present,
                           !.removed = (c \in Stored /\ c \notin DOMAIN responses'),
                           !.storeSame = (responses' = responses),
                           !.body = IF status = 200 THEN "response" ELSE "none"]
        /\ UNCHANGED <<running, pipeline, request, request_queue, request_id,
                       vendorUp, issued, raised>>

HandleGet(c) ==
    /\ HandleGetBody(c)
    /\ UNCHANGED <<rlVars, tcVars, outerVars>>

\* GET with no corr_id: the two counters
HandleGetStatus ==
    /\ running
    /\ lastHttp' = [NoHttp EXCEPT !.method = "GET", !.status = 200, !.body = "pending"]
    /\ UNCHANGED <<running, pipeline, request, request_queue, responses, request_id,
                   vendorUp, issued, raised, delivered>>
    /\ UNCHANGED <<rlVars, tcVars, outerVars>>

\* BaseServer._handler: any other method
HandleOther ==
    /\ running
    /\ lastHttp' = [NoHttp EXCEPT !.method = "PUT", !.status = 405]
    /\ UNCHANGED <<running, pipeline, request, request_queue, responses, request_id,
                   vendorUp, issued, raised, delivered>>
    /\ UNCHANGED <<rlVars, tcVars, outerVars>>

(***************************************************************************)
(* Server.cycle, under LogicMixin.run.  cycle re-raises every exception    *)
(* but QueueEmpty, and run catches KeyboardInterrupt only: an exception of *)
(* cycle leaves the `while self._running` loop for good.                   *)
(***************************************************************************)
\* asyncio.Queue.get_nowait: the oldest item
QueueGet(queue) == Head(queue)

\* get_nowait, self.vendors[request.vendor], vendor[request.endpoint], and the
\* call of fn up to its first suspension
CycleDequeue ==
    /\ pipeline = "idle"
    /\ request_queue # <<>>
    /\ request' = QueueGet(request_queue)
    /\ request_queue' = Tail(request_queue)
    /\ pipeline' = IF QueueGet(request_queue).endpoint \in Getters THEN "getter" ELSE "dead"
    /\ UNCHANGED <<running, responses, request_id, vendorUp, issued, raised,
                   delivered, lastHttp>>
    /\ UNCHANGED <<rlVars, tcVars, outerVars>>

\* fn and its formatter returned: self.responses.set(key=request.corr_id, ...)
CycleStore ==
    /\ pipeline = "getter"
    /\ responses' = ResponseManagerSet(responses, request.corr_id,
                                      Response(request.corr_id, "rows"))
    /\ pipeline' = "idle"
    /\ UNCHANGED <<running, request, request_queue, request_id, vendorUp, issued,
                   raised, delivered, lastHttp>>
    /\ UNCHANGED <<rlVars, tcVars, outerVars>>

\* fn or its formatter raised: `raise e`, nothing is stored
CycleRaise ==
    /\ pipeline = "getter"
    /\ raised' = raised \cup {request.corr_id}
    /\ pipeline' = "dead"
    /\ UNCHANGED <<running, request, request_queue, responses, request_id, vendorUp,
                   issued, delivered, lastHttp>>
    /\ UNCHANGED <<rlVars, tcVars, outerVars>>

\* the vendor's session drops
VendorDisconnect ==
    /\ running
    /\ vendorUp
    /\ vendorUp' = FALSE
    /\ UNCHANGED <<running, pipeline, request, request_queue, responses, request_id,
                   issued, raised, delivered, lastHttp>>
    /\ UNCHANGED <<rlVars, tcVars, outerVars>>

Pipeline == CycleDequeue \/ CycleStore \/ CycleRaise

Http ==
    \/ \E json \in BOOLEAN, vendor \in BodyVendors, endpoint \in BodyEndpoints,
          resource \in BodyResources, urgent \in BOOLEAN:
            HandlePost(json, vendor, endpoint, resource, urgent)
    \/ \E c \in CorrIds: HandleGet(c)
    \/ HandleGetStatus
    \/ HandleOther

(***************************************************************************)
(* RateLimiter.  Calls are coroutines on one event loop: a call runs from  *)
(* one suspension point (the sleep, the await of the target) to the next   *)
(* without interleaving.                                                   *)
(***************************************************************************)
Calls == 1..RLCalls

RLInit ==
    /\ now = 0
    /\ max_requests = 0
    /\ history = <<>>
    /\ rlpc = [c \in Calls |-> "idle"]
    /\ rlTime = [c \in Calls |-> 0]
    /\ rlWake = [c \in Calls |-> 0]
    /\ invoked = {}

\* RateLimiter.__init__: self.history = deque(maxlen=max_requests)
RLConstruct(n) ==
    /\ max_requests = 0
    /\ max_requests' = n
    /\ history' = <<>>
    /\ UNCHANGED <<now, rlpc, rlTime, rlWake, invoked>>
    /\ UNCHANGED <<serverVars, tcVars, outerVars>>

\* whether history.popleft() raises IndexError
HistoryEmpty(h) == h = <<>>

\* elapsed, as lines 261-265 compute it
Elapsed(h, time) == IF HistoryEmpty(h) THEN RLInterval ELSE time - Head(h)

\* the deque after the popleft of line 262
PopLeft(h) == IF HistoryEmpty(h) THEN h ELSE Tail(h)

\* deque.append on a deque with maxlen: a full deque drops its oldest item
DequeAppend(h, x, maxlen) ==
    IF Len(h) >= maxlen THEN Append(Tail(h), x) ELSE Append(h, x)

\* __call__ from its entry to its first suspension: the sleep when
\* elapsed < interval, the await of the target otherwise
RLCall(c) ==
    LET elapsed == Elapsed(history, now)
    IN  /\ max_requests > 0
        /\ rlpc[c] = "idle"
        /\ rlTime' = [rlTime EXCEPT ![c] = now]
        /\ history' = PopLeft(history)
        /\ IF elapsed < RLInterval
           THEN /\ rlpc' = [rlpc EXCEPT ![c] = "sleep"]
                /\ rlWake' = [rlWake EXCEPT ![c] = now + (RLInterval - elapsed)]
                /\ UNCHANGED invoked
           ELSE /\ rlpc' = [rlpc EXCEPT ![c] = "target"]
                /\ invoked' = invoked \cup {<<c, now>>}
                /\ UNCHANGED rlWake
        /\ UNCHANGED <<now, max_requests>>
        /\ UNCHANGED <<serverVars, tcVars, outerVars>>

\* the sleep of line 269 is over: the target is called
RLWake(c) ==
    /\ rlpc[c] = "sleep"
    /\ now >= rlWake[c]
    /\ rlpc' = [rlpc EXCEPT ![c] = "target"]
    /\ invoked' = invoked \cup {<<c, now>>}
    /\ UNCHANGED <<now, max_requests, history, rlTime, rlWake>>
    /\ UNCHANGED <<serverVars, tcVars, outerVars>>

\* the target returned: self.history.append(time), return response
RLReturn(c) ==
    /\ rlpc[c] = "target"
    /\ history' = DequeAppend(history, rlTime[c], max_requests)
    /\ rlpc' = [rlpc EXCEPT ![c] = "done"]
    /\ UNCHANGED <<now, max_requests, rlTime, rlWake, invoked>>
    /\ UNCHANGED <<serverVars, tcVars, outerVars>>

\* the clock advances; a sleep that is over wakes before it advances further
Tick ==
    /\ max_requests > 0
    /\ now < MaxTime
    /\ \A c \in Calls: rlpc[c] = "sleep" => now < rlWake[c]
    /\ now' = now + 1
    /\ UNCHANGED <<max_requests, history, rlpc, rlTime, rlWake, invoked>>
    /\ UNCHANGED <<serverVars, tcVars, outerVars>>

RateLimiter ==
    \/ \E n \in 1..RLMaxRequests: RLConstruct(n)
    \/ \E c \in Calls: RLCall(c) \/ RLWake(c) \/ RLReturn(c)
    \/ Tick

(***************************************************************************)
(* TimeChunker.  Times and durations are integers; `target` answers a      *)
(* request with one row that names the window it was asked for.            *)
(***************************************************************************)
\* API.Request with its RequestParams, as far as the chunker reads them
ChunkerRequest(corr_id, start, end, resolution) ==
    [corr_id |-> corr_id, start |-> start, end |-> end, resolution |-> resolution]

NoChunkerRequest == ChunkerRequest(NoCorrId, 0, 0, 0)

\* the Response of the underlying getter to a request
TargetResponse(req) == [corr_id |-> req.corr_id, data |-> <<<<req.start, req.end>>>>]

NoResponses == [kind |-> "none", entries |-> <<>>]
NoResult == [kind |-> "none", corr_id |-> NoCorrId, data |-> <<>>, entries |-> <<>>]

\* the chunk schedules a TimeChunker is constructed with: resolution ->
\* maximum duration of one request, finest resolution first
ChunkSchedules ==
    { <<[resolution |-> 1, max_duration |-> 2]>>,
      <<[resolution |-> 1, max_duration |-> 2], [resolution |-> 2, max_duration |-> 3]>>,
      <<[resolution |-> 2, max_duration |-> 1]>> }

TCInit ==
    /\ tcpc = "idle"
    /\ tcRequest = NoChunkerRequest
    /\ chunk_schedule = <<>>
    /\ tcIndex = 0
    /\ tcLoop = 0
    /\ chunkRequest = NoChunkerRequest
    /\ request_start = 0
    /\ request_end = 0
    /\ chunkCorrId = NoCorrId
    /\ tcNextCorrId = 0
    /\ tcResponses = NoResponses
    /\ dispatched = <<>>
    /\ tcResult = NoResult

\* request_duration of line 325
RequestDuration(req) == req.end - req.start

\* n_chunks of line 330: timedelta // timedelta
NChunks(duration, max_duration) == duration \div max_duration

\* the two conditions of lines 329-330
Chunks(req, entry) ==
    /\ req.resolution <= entry.resolution
    /\ NChunks(RequestDuration(req), entry.max_duration) > 1

\* responses[key] = value on the dict of _chunk
DictSet(d, key, value) ==
    [kind |-> "dict",
     entries |-> [c \in (DOMAIN d.entries) \cup {key} |->
                     IF c = key THEN value ELSE d.entries[c]]]

\* `not responses` of line 334: None, or an empty dict
NotResponses(d) == d.kind = "none" \/ DOMAIN d.entries = {}

\* TimeChunker.__call__ is entered with a request and a schedule; the request
\* has the corr_id the pipeline gave it
TCCall(start, end, resolution, schedule) ==
    /\ tcpc = "idle"
    /\ tcRequest' = ChunkerRequest(1, start, end, resolution)
    /\ chunk_schedule' = schedule
    /\ tcNextCorrId' = 1
    /\ tcIndex' = 1
    /\ tcResponses' = NoResponses
    /\ tcpc' = "schedule"
    /\ UNCHANGED <<tcLoop, chunkRequest, request_start, request_end, chunkCorrId,
                   dispatched, tcResult>>
    /\ UNCHANGED <<serverVars, rlVars, outerVars>>

\* one iteration of the for loop of line 328 that does not chunk
TCSkipEntry ==
    /\ tcpc = "schedule"
    /\ tcIndex <= Len(chunk_schedule)
    /\ ~Chunks(tcRequest, chunk_schedule[tcIndex])
    /\ tcIndex' = tcIndex + 1
    /\ UNCHANGED <<tcpc, tcRequest, chunk_schedule, tcLoop, chunkRequest, request_start,
                   request_end, chunkCorrId, tcNextCorrId, tcResponses, dispatched,
                   tcResult>>
    /\ UNCHANGED <<serverVars, rlVars, outerVars>>

\* one iteration that chunks: _chunk is entered (lines 286-289)
TCEnterChunk ==
    /\ tcpc = "schedule"
    /\ tcIndex <= Len(chunk_schedule)
    /\ Chunks(tcRequest, chunk_schedule[tcIndex])
    /\ tcResponses' = [kind |-> "dict", entries |-> <<>>]
    /\ chunkRequest' = tcRequest
    /\ chunkCorrId' = tcRequest.corr_id
    /\ request_start' = tcRequest.start
    /\ request_end' = tcRequest.start + chunk_schedule[tcIndex].max_duration
    /\ tcLoop' = NChunks(RequestDuration(tcRequest), chunk_schedule[tcIndex].max_duration) - 1
    /\ tcpc' = "chunk"
    /\ UNCHANGED <<tcRequest, chunk_schedule, tcIndex, tcNextCorrId, dispatched, tcResult>>
    /\ UNCHANGED <<serverVars, rlVars, outerVars>>

\* one iteration of the for loop of _chunk (lines 291-307)
TCChunkLoop ==
    LET sub == ChunkerRequest(chunkCorrId, request_start, request_end,
                              chunkRequest.resolution)
        next_start == request_end + sub.resolution
    IN  /\ tcpc = "chunk"
        /\ tcLoop > 0
        /\ chunkRequest' = sub
        /\ dispatched' = Append(dispatched, sub)
        /\ tcResponses' = DictSet(tcResponses, sub.corr_id, TargetResponse(sub))
        /\ request_start' = next_start
        /\ request_end' = next_start + chunk_schedule[tcIndex].max_duration
        /\ tcNextCorrId' = tcNextCorrId + 1
        /\ chunkCorrId' = tcNextCorrId + 1
        /\ tcLoop' = tcLoop - 1
        /\ UNCHANGED <<tcpc, tcRequest, chunk_schedule, tcIndex, tcResult>>
        /\ UNCHANGED <<serverVars, rlVars, outerVars>>

\* the stub request of _chunk (lines 309-321), and the return to the for loop
\* of __call__
TCChunkStub ==
    LET stub_request == ChunkerRequest(chunkCorrId,
                                       request_end + chunkRequest.resolution,
                                       chunkRequest.end, chunkRequest.resolution)
    IN  /\ tcpc = "chunk"
        /\ tcLoop = 0
        /\ dispatched' = Append(dispatched, stub_request)
        /\ tcResponses' = DictSet(tcResponses, stub_request.corr_id,
                                  TargetResponse(stub_request))
        /\ tcIndex' = tcIndex + 1
        /\ tcpc' = "schedule"
        /\ UNCHANGED <<tcRequest, chunk_schedule, tcLoop, chunkRequest, request_start,
                       request_end, chunkCorrId, tcNextCorrId, tcResult>>
        /\ UNCHANGED <<serverVars, rlVars, outerVars>>

\* after the for loop, nothing was chunked: the request is forwarded (line 335)
TCForward ==
    /\ tcpc = "schedule"
    /\ tcIndex > Len(chunk_schedule)
    /\ NotResponses(tcResponses)
    /\ dispatched' = Append(dispatched, tcRequest)
    /\ tcResult' = [kind |-> "response", corr_id |-> TargetResponse(tcRequest).corr_id,
                    data |-> TargetResponse(tcRequest).data, entries |-> <<>>]
    /\ tcpc' = "done"
    /\ UNCHANGED <<tcRequest, chunk_schedule, tcIndex, tcLoop, chunkRequest,
                   request_start, request_end, chunkCorrId, tcNextCorrId, tcResponses>>
    /\ UNCHANGED <<serverVars, rlVars, outerVars>>

\* after the for loop, _chunk ran: its dict is returned (line 337)
TCReturnResponses ==
    /\ tcpc = "schedule"
    /\ tcIndex > Len(chunk_schedule)
    /\ ~NotResponses(tcResponses)
    /\ tcResult' = [kind |-> "dict", corr_id |-> NoCorrId, data |-> <<>>,
                    entries |-> tcResponses.entries]
    /\ tcpc' = "done"
    /\ UNCHANGED <<tcRequest, chunk_schedule, tcIndex, tcLoop, chunkRequest,
                   request_start, request_end, chunkCorrId, tcNextCorrId, tcResponses,
                   dispatched>>
    /\ UNCHANGED <<serverVars, rlVars, outerVars>>

TimeChunker ==
    \/ \E start \in 0..1, end \in 0..TCMaxEnd, resolution \in 1..TCMaxResolution,
          schedule \in ChunkSchedules:
            start <= end /\ TCCall(start, end, resolution, schedule)
    \/ TCSkipEntry
    \/ TCEnterChunk
    \/ TCChunkLoop
    \/ TCChunkStub
    \/ TCForward
    \/ TCReturnResponses

(***************************************************************************)
(* RequestManager (server/bases.py): two queues, the urgent one an         *)
(* asyncio.PriorityQueue and the normal one an asyncio.LifoQueue, both     *)
(* holding Task objects.  A queue is modelled by the list under it.        *)
(***************************************************************************)
\* Task: a dataclass with bound_func only, so it has no order; `id` counts the
\* Tasks in the order they were made, `urgent` is the queue it was put on
Task(id, urgent) == [id |-> id, urgent |-> urgent]

RMInit ==
    /\ rmRunning = FALSE
    /\ rmpc = "stopped"
    /\ task_queue_urgent = <<>>
    /\ task_queue_normal = <<>>
    /\ rmNextTask = 0
    /\ rmTaken = <<>>

\* PriorityQueue._put is heappush: the item is appended to the list, and
\* sifting it down compares it with its parent.  Tasks do not compare, so on a
\* non-empty heap the put raises TypeError after the append.
HeapPush(heap, task) == Append(heap, task)

\* whether heappop raises TypeError: it compares two Tasks as soon as two are
\* left after the pop
HeapPopRaises(heap) == Len(heap) >= 3

\* what heappop returns when it does not raise: the item at the root
HeapPopValue(heap) == Head(heap)

\* the list after heappop: the last item is moved to the root and sifted; with
\* three items the sift swaps before the comparison that raises
HeapPopRest(heap) ==
    IF Len(heap) <= 3 THEN Tail(heap)
    ELSE <<heap[Len(heap)]>> \o SubSeq(heap, 2, Len(heap) - 1)

\* LifoQueue._get is list.pop(): the item put last
LifoGet(queue) == queue[Len(queue)]

\* the list after list.pop()
LifoRest(queue) == SubSeq(queue, 1, Len(queue) - 1)

\* RequestManager.start
RMStart ==
    /\ rmpc = "stopped"
    /\ rmRunning' = TRUE
    /\ rmpc' = "cycle"
    /\ UNCHANGED <<task_queue_urgent, task_queue_normal, rmNextTask, rmTaken>>
    /\ UNCHANGED <<coreVars, getterVars, clientVars, appVars, diffVars, extraVars>>

\* RequestManager.stop
RMStop ==
    /\ rmRunning
    /\ rmRunning' = FALSE
    /\ UNCHANGED <<rmpc, task_queue_urgent, task_queue_normal, rmNextTask, rmTaken>>
    /\ UNCHANGED <<coreVars, getterVars, clientVars, appVars, diffVars, extraVars>>

\* RequestManager._put_queue(task, urgent)
RMPutQueue(urgent) ==
    LET task == Task(rmNextTask + 1, urgent)
    IN  /\ rmNextTask < MaxTasks
        /\ rmNextTask' = rmNextTask + 1
        /\ IF urgent
           THEN /\ task_queue_urgent' = HeapPush(task_queue_urgent, task)
                /\ UNCHANGED task_queue_normal
           ELSE /\ task_queue_normal' = Append(task_queue_normal, task)
                /\ UNCHANGED task_queue_urgent
        /\ UNCHANGED <<rmRunning, rmpc, rmTaken>>
        /\ UNCHANGED <<coreVars, getterVars, clientVars, appVars, diffVars, extraVars>>

\* cycle: _poll_queue on the urgent queue returns a Task, or heappop raises.
\* _process_task then reads task.endpoint, which a Task does not have: the
\* AttributeError leaves cycle and run.
RMPollUrgent ==
    /\ rmpc = "cycle"
    /\ task_queue_urgent # <<>>
    /\ task_queue_urgent' = HeapPopRest(task_queue_urgent)
    /\ rmTaken' = IF HeapPopRaises(task_queue_urgent) THEN rmTaken
                  ELSE Append(rmTaken, HeapPopValue(task_queue_urgent))
    /\ rmpc' = "dead"
    /\ UNCHANGED <<rmRunning, task_queue_normal, rmNextTask>>
    /\ UNCHANGED <<coreVars, getterVars, clientVars, appVars, diffVars, extraVars>>

\* cycle: the urgent queue is empty (QueueEmpty, its while loop ends) and
\* _poll_queue on the normal queue returns a Task; _process_task raises as above
RMPollNormal ==
    /\ rmpc = "cycle"
    /\ task_queue_urgent = <<>>
    /\ task_queue_normal # <<>>
    /\ task_queue_normal' = LifoRest(task_queue_normal)
    /\ rmTaken' = Append(rmTaken, LifoGet(task_queue_normal))
    /\ rmpc' = "dead"
    /\ UNCHANGED <<rmRunning, task_queue_urgent, rmNextTask>>
    /\ UNCHANGED <<coreVars, getterVars, clientVars, appVars, diffVars, extraVars>>

\* cycle: both queues are empty, cycle sleeps
RMQueueEmpty ==
    /\ rmpc = "cycle"
    /\ task_queue_urgent = <<>>
    /\ task_queue_normal = <<>>
    /\ rmpc' = "sleep"
    /\ UNCHANGED <<rmRunning, task_queue_urgent, task_queue_normal, rmNextTask, rmTaken>>
    /\ UNCHANGED <<coreVars, getterVars, clientVars, appVars, diffVars, extraVars>>

\* the sleep of cycle is over: run tests _running and cycles again or returns
RMCycleEnd ==
    /\ rmpc = "sleep"
    /\ rmpc' = IF rmRunning THEN "cycle" ELSE "stopped"
    /\ UNCHANGED <<rmRunning, task_queue_urgent, task_queue_normal, rmNextTask, rmTaken>>
    /\ UNCHANGED <<coreVars, getterVars, clientVars, appVars, diffVars, extraVars>>

RequestManager ==
    \/ RMStart
    \/ RMStop
    \/ \E urgent \in BOOLEAN: RMPutQueue(urgent)
    \/ RMPollUrgent
    \/ RMPollNormal
    \/ RMQueueEmpty
    \/ RMCycleEnd

(***************************************************************************)
(* Getter.  One getter of a vendor, built either as Getter(raw) or as      *)
(* TimeChunker(RateLimiter(Getter(raw))), and the calls made to it.  The   *)
(* lock is the asyncio.Lock of the Getter that wraps raw: RateLimiter and  *)
(* TimeChunker override __call__ and never take their own.                 *)
(***************************************************************************)
GCalls == 1..GetterCalls

GetterInit ==
    /\ gLocked = FALSE
    /\ gWaiters = <<>>
    /\ gpc = [c \in GCalls |-> "idle"]
    /\ gKind = "none"
    /\ gChunks = [c \in GCalls |-> 0]

\* the getters of VendorSpec are built
GetterConstruct(kind) ==
    /\ gKind = "none"
    /\ gKind' = kind
    /\ UNCHANGED <<gLocked, gWaiters, gpc, gChunks>>
    /\ UNCHANGED <<coreVars, rmVars, clientVars, appVars, diffVars, extraVars>>

\* a lock that never holds a call back
NeverHeld(locked, waiters) == TRUE

\* asyncio.Lock.acquire takes the lock at once only when it is unlocked and no
\* call waits for it
LockFree(locked, waiters) == ~locked /\ waiters = <<>>

\* `async with self._lock` of Getter.__call__, up to its first suspension: the
\* lock is taken and raw is entered, or the call joins the waiters
GetterAcquire(c) ==
    IF LockFree(gLocked, gWaiters)
    THEN /\ gLocked' = TRUE
         /\ gpc' = [gpc EXCEPT ![c] = "raw"]
         /\ UNCHANGED gWaiters
    ELSE /\ gWaiters' = Append(gWaiters, c)
         /\ gpc' = [gpc EXCEPT ![c] = "waiting"]
         /\ UNCHANGED gLocked

\* a call of Getter(raw)
GetterCall(c) ==
    /\ gKind = "plain"
    /\ gpc[c] = "idle"
    /\ gChunks' = [gChunks EXCEPT ![c] = 1]
    /\ GetterAcquire(c)
    /\ UNCHANGED gKind
    /\ UNCHANGED <<coreVars, rmVars, clientVars, appVars, diffVars, extraVars>>

\* a call of TimeChunker(RateLimiter(Getter(raw))) that will make n
\* sub-requests: TimeChunker.__call__ and RateLimiter.__call__ run, and the
\* RateLimiter may sleep, before Getter.__call__ is reached
ComposedCall(c, n) ==
    /\ gKind = "composed"
    /\ gpc[c] = "idle"
    /\ gChunks' = [gChunks EXCEPT ![c] = n]
    /\ gpc' = [gpc EXCEPT ![c] = "limiter"]
    /\ UNCHANGED <<gLocked, gWaiters, gKind>>
    /\ UNCHANGED <<coreVars, rmVars, clientVars, appVars, diffVars, extraVars>>

\* RateLimiter.__call__ reaches `await self.target.__call__`: Getter.__call__
LimiterPass(c) ==
    /\ gpc[c] = "limiter"
    /\ GetterAcquire(c)
    /\ UNCHANGED <<gKind, gChunks>>
    /\ UNCHANGED <<coreVars, rmVars, clientVars, appVars, diffVars, extraVars>>

\* Lock.release woke the oldest waiter: it takes the lock and enters raw
LockWake(c) ==
    /\ gpc[c] = "waiting"
    /\ ~gLocked
    /\ gWaiters # <<>>
    /\ Head(gWaiters) = c
    /\ gLocked' = TRUE
    /\ gWaiters' = Tail(gWaiters)
    /\ gpc' = [gpc EXCEPT ![c] = "raw"]
    /\ UNCHANGED <<gKind, gChunks>>
    /\ UNCHANGED <<coreVars, rmVars, clientVars, appVars, diffVars, extraVars>>

\* raw returned (or raised): the `async with` releases the lock; the
\* TimeChunker goes on to its next sub-request if it has one
RawReturn(c) ==
    /\ gpc[c] = "raw"
    /\ gLocked' = FALSE
    /\ IF gChunks[c] > 1
       THEN /\ gChunks' = [gChunks EXCEPT ![c] = @ - 1]
            /\ gpc' = [gpc EXCEPT ![c] = "limiter"]
       ELSE /\ gChunks' = [gChunks EXCEPT ![c] = 0]
            /\ gpc' = [gpc EXCEPT ![c] = "done"]
    /\ UNCHANGED <<gWaiters, gKind>>
    /\ UNCHANGED <<coreVars, rmVars, clientVars, appVars, diffVars, extraVars>>

Getter ==
    \/ \E kind \in {"plain", "composed"}: GetterConstruct(kind)
    \/ \E c \in GCalls: GetterCall(c)
    \/ \E c \in GCalls, n \in 1..MaxChunks: ComposedCall(c, n)
    \/ \E c \in GCalls: LimiterPass(c)
    \/ \E c \in GCalls: LockWake(c)
    \/ \E c \in GCalls: RawReturn(c)

(***************************************************************************)
(* BaseClient over Connection (common/vendors/ibkr/bases.py).  App holds   *)
(* one Connection for its whole life; App._ainit constructs a client over  *)
(* it and awaits its connect.  connect, handshake and disconnect are       *)
(* coroutines on one event loop: each action runs from one await to the    *)
(* next.                                                                   *)
(***************************************************************************)
\* BaseClient.DISCONNECTED, CONNECTING, CONNECTED = range(3)
ConnStates == {"DISCONNECTED", "CONNECTING", "CONNECTED"}

\* the server versions a handshake reply may carry
ServerVersions == {176, 178}

\* Connection.__init__ (in App.__init__); no client yet
ClientInit ==
    /\ clientpc = "none"
    /\ connState = "DISCONNECTED"
    /\ reader = FALSE
    /\ writer = FALSE
    /\ serverVersion_ = 0
    /\ connTime = 0
    /\ retry = 0
    /\ started = FALSE
    /\ startApiSent = FALSE
    /\ lastCall = "none"
    /\ connects = <<>>
    /\ connRequestId = 0
    /\ issuedIds = <<>>

\* Connection.connected
Connected == writer /\ reader

\* a client built over a Connection of its own, whose request_id starts at 0
FreshConnection(counter) == 0

\* Connection.request_id as a new client finds it: _ainit hands every client
\* the one Connection made in App.__init__, with its counter as it is
AInitRequestId(counter) == counter

\* App._ainit: BaseClient.__init__ (reset(), connState, _started) over
\* App.connection, then connect up to `await self.conn.connect()`
AInit ==
    /\ clientpc \in {"none", "started", "failed"}
    /\ Len(connects) < MaxConnects
    /\ connects' = Append(connects, lastCall)
    /\ connState' = "DISCONNECTED"
    /\ serverVersion_' = 0
    /\ connTime' = 0
    /\ started' = FALSE
    /\ startApiSent' = FALSE
    /\ retry' = 0
    /\ clientpc' = "open"
    /\ connRequestId' = AInitRequestId(connRequestId)
    /\ UNCHANGED <<reader, writer, lastCall, issuedIds>>
    /\ UNCHANGED <<coreVars, rmVars, getterVars, appVars, diffVars, extraVars>>

\* asyncio.open_connection returned: Connection.connect sets _reader and
\* _writer, connect sets CONNECTING and enters handshake(retry=0), which
\* writes the API message and awaits its first read
ConnectionOpened ==
    /\ clientpc = "open"
    /\ reader' = TRUE
    /\ writer' = TRUE
    /\ connState' = "CONNECTING"
    /\ retry' = 0
    /\ clientpc' = "handshake"
    /\ UNCHANGED <<serverVersion_, connTime, started, startApiSent, lastCall, connects,
                   connRequestId, issuedIds>>
    /\ UNCHANGED <<coreVars, rmVars, getterVars, appVars, diffVars, extraVars>>

\* asyncio.open_connection raised (nobody listens): connect raises
ConnectionRefused ==
    /\ clientpc = "open"
    /\ clientpc' = "failed"
    /\ lastCall' = "connect_refused"
    /\ UNCHANGED <<connState, reader, writer, serverVersion_, connTime, retry, started,
                   startApiSent, connects, connRequestId, issuedIds>>
    /\ UNCHANGED <<coreVars, rmVars, getterVars, appVars, diffVars, extraVars>>

\* The three reads of the innermost handshake frame succeed with `version`:
\* that frame records connTime and serverVersion_ (lines 166-168) and
\* returns.  With retry = 0 connect goes on: CONNECTED, START_API,
\* connectAck, _started.  With retry > 0 the frame returns into the except
\* block of the frame that called it, which then runs line 166 with its own
\* `conn_time` never assigned: UnboundLocalError leaves every outer frame and
\* connect.
HandshakeReply(version) ==
    /\ clientpc = "handshake"
    /\ serverVersion_' = version
    /\ connTime' = retry + 1
    /\ IF retry = 0
       THEN /\ connState' = "CONNECTED"
            /\ startApiSent' = TRUE
            /\ started' = TRUE
            /\ clientpc' = "started"
            /\ lastCall' = "connect"
       ELSE /\ clientpc' = "failed"
            /\ lastCall' = "connect_unbound"
            /\ UNCHANGED <<connState, startApiSent, started>>
    /\ UNCHANGED <<reader, writer, retry, connects, connRequestId, issuedIds>>
    /\ UNCHANGED <<coreVars, rmVars, getterVars, appVars, diffVars, extraVars>>

\* a handshake that allows one attempt more than MAX_RETRIES retries
RetryThrough(attempt) == attempt <= MAX_RETRIES

\* the test of the except block of handshake: `retry < BaseClient.MAX_RETRIES`
MayRetry(attempt) == attempt < MAX_RETRIES

\* a read of the innermost frame times out or is partial, retry < MAX_RETRIES:
\* after the sleep handshake(retry + 1) writes the API message again and
\* awaits its reads
HandshakeRetry ==
    /\ clientpc = "handshake"
    /\ MayRetry(retry)
    /\ retry' = retry + 1
    /\ UNCHANGED <<clientpc, connState, reader, writer, serverVersion_, connTime, started,
                   startApiSent, lastCall, connects, connRequestId, issuedIds>>
    /\ UNCHANGED <<coreVars, rmVars, getterVars, appVars, diffVars, extraVars>>

\* a read fails with retry = MAX_RETRIES: ConnectionError leaves every frame
\* and connect; nothing catches it and nothing else runs
HandshakeExhausted ==
    /\ clientpc = "handshake"
    /\ ~MayRetry(retry)
    /\ clientpc' = "failed"
    /\ lastCall' = "connect_fatal"
    /\ UNCHANGED <<connState, reader, writer, serverVersion_, connTime, retry, started,
                   startApiSent, connects, connRequestId, issuedIds>>
    /\ UNCHANGED <<coreVars, rmVars, getterVars, appVars, diffVars, extraVars>>

\* BaseClient.disconnect: connState is set; Connection.disconnect calls
\* self._reader.close() when there is a reader, and asyncio.StreamReader has
\* no close: AttributeError leaves disconnect before anything is released or
\* reset.  Without a reader nothing is closed, and reset() (EClient.reset)
\* clears serverVersion_ and connTime.
ClientDisconnect ==
    /\ clientpc # "none"
    /\ connState' = "DISCONNECTED"
    /\ IF reader
       THEN /\ lastCall' = "disconnect_raised"
            /\ UNCHANGED <<reader, writer, serverVersion_, connTime>>
       ELSE /\ lastCall' = "disconnect"
            /\ reader' = FALSE
            /\ writer' = FALSE
            /\ serverVersion_' = 0
            /\ connTime' = 0
    /\ UNCHANGED <<clientpc, retry, started, startApiSent, connects, connRequestId,
                   issuedIds>>
    /\ UNCHANGED <<coreVars, rmVars, getterVars, appVars, diffVars, extraVars>>

\* App.request_id: self.client.conn.next_request_id()
AppRequestId ==
    /\ clientpc # "none"
    /\ Len(issuedIds) < MaxRequestIds
    /\ connRequestId' = NextRequestId(connRequestId)
    /\ issuedIds' = Append(issuedIds, [id |-> NextRequestId(connRequestId),
                                       client |-> Len(connects),
                                       state |-> connState])
    /\ UNCHANGED <<clientpc, connState, reader, writer, serverVersion_, connTime, retry,
                   started, startApiSent, lastCall, connects>>
    /\ UNCHANGED <<coreVars, rmVars, getterVars, appVars, diffVars, extraVars>>

Client ==
    \/ AInit
    \/ ConnectionOpened
    \/ ConnectionRefused
    \/ \E version \in ServerVersions: HandshakeReply(version)
    \/ HandshakeRetry
    \/ HandshakeExhausted
    \/ ClientDisconnect
    \/ AppRequestId

(***************************************************************************)
(* App (common/vendors/ibkr/bases.py): responses arrive by put, callers    *)
(* collect them by get.  The upstream sends the tuples of a request_id one *)
(* message at a time and then its end-of-data message, for which Client    *)
(* has no handler: App learns nothing from it.                             *)
(***************************************************************************)
AppRequestIds == {1, 2}

Gets == 1..AppGets

AppInit ==
    /\ appResponses = [r \in AppRequestIds |-> <<>>]
    /\ getpc = [g \in Gets |-> "idle"]
    /\ getId = [g \in Gets |-> 0]
    /\ getResult = [g \in Gets |-> <<>>]
    /\ sent = [r \in AppRequestIds |-> <<>>]
    /\ ended = [r \in AppRequestIds |-> FALSE]
    /\ getEnded = [g \in Gets |-> FALSE]

\* self.responses.pop(request_id, []): the list, and the dict without the key
DictPopValue(d, key) == d[key]
DictPopRest(d, key) == [d EXCEPT ![key] = <<>>]

\* App.put(request_id, response), called for a message of the upstream
AppPut(r) ==
    LET response == <<r, Len(sent[r]) + 1>>
    IN  /\ clientpc = "started"
        /\ ~ended[r]
        /\ Len(sent[r]) < MaxTuples
        /\ appResponses' = [appResponses EXCEPT ![r] = Append(@, response)]
        /\ sent' = [sent EXCEPT ![r] = Append(@, response)]
        /\ UNCHANGED <<getpc, getId, getResult, ended, getEnded>>
        /\ UNCHANGED <<coreVars, rmVars, getterVars, clientVars, diffVars, extraVars>>

\* the upstream's end-of-data message for r arrives
UpstreamEnd(r) ==
    /\ clientpc = "started"
    /\ ~ended[r]
    /\ ended' = [ended EXCEPT ![r] = TRUE]
    /\ UNCHANGED <<appResponses, getpc, getId, getResult, sent, getEnded>>
    /\ UNCHANGED <<coreVars, rmVars, getterVars, clientVars, diffVars, extraVars>>

\* App.get(request_id) up to its return or to the first sleep of wait_for
AppGet(g, r) ==
    /\ getpc[g] = "idle"
    /\ getId' = [getId EXCEPT ![g] = r]
    /\ IF Len(DictPopValue(appResponses, r)) = 0
       THEN /\ getpc' = [getpc EXCEPT ![g] = "waiting"]
            /\ UNCHANGED <<appResponses, getResult, getEnded>>
       ELSE /\ getpc' = [getpc EXCEPT ![g] = "returned"]
            /\ getResult' = [getResult EXCEPT ![g] = DictPopValue(appResponses, r)]
            /\ appResponses' = DictPopRest(appResponses, r)
            /\ getEnded' = [getEnded EXCEPT ![g] = ended[r]]
    /\ UNCHANGED <<sent, ended>>
    /\ UNCHANGED <<coreVars, rmVars, getterVars, clientVars, diffVars, extraVars>>

\* wait_for: a sleep is over and the pop finds a non-empty list (while it
\* finds none, the loop sleeps again and nothing changes)
AppWaitFor(g) ==
    /\ getpc[g] = "waiting"
    /\ Len(DictPopValue(appResponses, getId[g])) # 0
    /\ getpc' = [getpc EXCEPT ![g] = "returned"]
    /\ getResult' = [getResult EXCEPT ![g] = DictPopValue(appResponses, getId[g])]
    /\ appResponses' = DictPopRest(appResponses, getId[g])
    /\ getEnded' = [getEnded EXCEPT ![g] = ended[getId[g]]]
    /\ UNCHANGED <<getId, sent, ended>>
    /\ UNCHANGED <<coreVars, rmVars, getterVars, clientVars, diffVars, extraVars>>

AppWait == \E g \in Gets: AppWaitFor(g)

(***************************************************************************)
(* routines.diff and routines.plan (server/routines/diff.py, plan.py).     *)
(* A database structure is a dict schema -> table -> {"columns",           *)
(* "date_range"}; a schema is a vendor and a table one of its resources.   *)
(* Dates are integers from 1 (str_to_dt keeps the order of the strings it  *)
(* parses); 0 is None.                                                     *)
(***************************************************************************)
Schemas == {"V"}
Tables == {"T", "U"}

\* the date_range of a table: (None, None), or (start, end)
DateRanges ==
    {<<0, 0>>} \cup {r \in (1..MaxDate) \X (1..MaxDate) : r[1] <= r[2]}

\* the tables a structure may hold
TableInfos == [columns : {<<>>, <<"a">>, <<"a", "b">>}, date_range : DateRanges]

\* what table U holds whenever it is there
UInfo == [columns |-> <<"a">>, date_range |-> <<1, MaxDate>>]

\* the tables of one schema: any subset of Tables
SchemaTables ==
    {f \in UNION {[D -> TableInfos] : D \in SUBSET Tables} :
        "U" \in DOMAIN f => f["U"] = UInfo}

NoSchemas == [s \in {} |-> [t \in {} |-> UInfo]]
NoTables == [t \in {} |-> UInfo]

\* the structures diff is called with
Structs == {NoSchemas} \cup {[s \in Schemas |-> f] : f \in SchemaTables}

\* expected.get(schema_name, {})
TablesOf(struct, s) == IF s \in DOMAIN struct THEN struct[s] ELSE NoTables

\* schema.get(table_name, {}), with the defaults of its two .get calls
TableOf(struct, s, t) ==
    IF t \in DOMAIN TablesOf(struct, s) THEN TablesOf(struct, s)[t]
    ELSE [columns |-> <<>>, date_range |-> <<0, 0>>]

\* _contrast_keys: the keys of basis that other lacks
ContrastKeys(basis, other) == (DOMAIN basis) \ (DOMAIN other)

\* _compare_keys: the keys of basis that other has
CompareKeys(basis, other) == (DOMAIN basis) \cap (DOMAIN other)

Range(seq) == {seq[i] : i \in 1..Len(seq)}

\* [column for column in basis if column not in other]
ColumnsNotIn(basis, other) == SelectSeq(basis, LAMBDA c: c \notin Range(other))

\* [column for column in basis if column in other]
ColumnsIn(basis, other) == SelectSeq(basis, LAMBDA c: c \in Range(other))

\* lines 78-87: missing_start, orphaned_start; <<>> is None
MissingStart(es, as) ==
    IF es = 0 THEN <<>>
    ELSE IF as = 0 THEN <<es, 0>>
    ELSE IF es < as THEN <<es, as>> ELSE <<>>

OrphanedStart(es, as) ==
    IF es # 0 /\ as # 0 /\ es > as THEN <<as, es>> ELSE <<>>

\* lines 88-97: missing_end, orphaned_end
MissingEnd(ee, ae) ==
    IF ee = 0 THEN <<>>
    ELSE IF ae = 0 THEN <<0, ee>>
    ELSE IF ee > ae THEN <<ae, ee>> ELSE <<>>

OrphanedEnd(ee, ae) ==
    IF ee # 0 /\ ae # 0 /\ ee < ae THEN <<ee, ae>> ELSE <<>>

\* what _compare_columns_and_dates writes into one of its three dicts for a
\* table: which keys, and their values
Entry(columns, start, end) ==
    [hasColumns |-> columns # <<>>, columns |-> columns,
     hasDateRange |-> (start # <<>> \/ end # <<>>), start |-> start, end |-> end]

MissingEntry(expected, actual, s, t) ==
    LET e == TableOf(expected, s, t)
        a == TableOf(actual, s, t)
    IN  Entry(ColumnsNotIn(e.columns, a.columns),
              MissingStart(e.date_range[1], a.date_range[1]),
              MissingEnd(e.date_range[2], a.date_range[2]))

OrphanedEntry(expected, actual, s, t) ==
    LET e == TableOf(expected, s, t)
        a == TableOf(actual, s, t)
    IN  Entry(ColumnsNotIn(a.columns, e.columns),
              OrphanedStart(e.date_range[1], a.date_range[1]),
              OrphanedEnd(e.date_range[2], a.date_range[2]))

\* the tables _compare_tables puts under missing[schema]: those of expected
\* that actual lacks.  missing[schema][table] exists for these and no others.
MissingTables(expected, actual, s) ==
    ContrastKeys(TablesOf(expected, s), TablesOf(actual, s))

\* the schemas that are keys of missing after _compare_schema and
\* _compare_tables
MissingSchemas(expected, actual) ==
    {s \in DOMAIN expected:
        s \in ContrastKeys(expected, actual) \/ MissingTables(expected, actual, s) # {}}

\* whether an assignment of lines 66-69 or 99-102 for the table raises
\* KeyError: it writes missing[schema][table][...] or
\* orphaned[schema][table][...], and the table is no key there
TableRaises(expected, actual, s, t) ==
    LET m == MissingEntry(expected, actual, s, t)
        o == OrphanedEntry(expected, actual, s, t)
    IN  \/ (m.hasColumns \/ m.hasDateRange) /\ t \notin MissingTables(expected, actual, s)
        \/ (o.hasColumns \/ o.hasDateRange) /\ t \notin MissingTables(actual, expected, s)

\* _compare_schema, _compare_tables and _compare_columns_and_dates on
\* (expected, actual), by their parameter names
Compare(expected, actual) ==
    LET schemas == (DOMAIN expected) \cup (DOMAIN actual)
        keyError == \E s \in schemas:
                       \E t \in (DOMAIN TablesOf(expected, s)) \cup (DOMAIN TablesOf(actual, s)):
                          TableRaises(expected, actual, s, t)
    IN  IF keyError
        THEN [raised |-> TRUE, missing |-> NoSchemas, orphaned |-> NoSchemas]
        ELSE [raised |-> FALSE,
              missing |-> [s \in MissingSchemas(expected, actual) |->
                             [t \in MissingTables(expected, actual, s) |->
                                 MissingEntry(expected, actual, s, t)]],
              orphaned |-> [s \in MissingSchemas(actual, expected) |->
                             [t \in MissingTables(actual, expected, s) |->
                                 OrphanedEntry(expected, actual, s, t)]]]

\* diff(expected, actual): lines 110-112 pass (actual, expected) to helpers
\* whose parameters are (expected, actual)
Diff(expected, actual) == Compare(actual, expected)

NoDiff == [raised |-> FALSE, missing |-> NoSchemas, orphaned |-> NoSchemas]

\* _generate_date_ranges and _generate_requests for one missing resource: a
\* Request per date range, for the endpoint that returns its columns
ResourceRequests(s, t, entry) ==
    {[vendor |-> s, resource |-> t, start |-> r[1], end |-> r[2]] :
        r \in {entry.start, entry.end} \ {<<>>}}

\* whether _generate_requests raises KeyError: missing_resource["columns"] or
\* missing_resource["date_range"] was never written
ResourceRaises(entry) == ~entry.hasColumns \/ ~entry.hasDateRange

\* plan(missing, server_inst): the requests as a set
Plan(missing) ==
    IF \E s \in DOMAIN missing: \E t \in DOMAIN missing[s]: ResourceRaises(missing[s][t])
    THEN [raised |-> TRUE, requests |-> {}]
    ELSE [raised |-> FALSE,
          requests |-> UNION {ResourceRequests(st[1], st[2], missing[st[1]][st[2]]) :
                                 st \in {x \in Schemas \X Tables:
                                            x[1] \in DOMAIN missing
                                            /\ x[2] \in DOMAIN missing[x[1]]}}]

NoPlan == [raised |-> FALSE, requests |-> {}]

DiffInit ==
    /\ diffpc = "idle"
    /\ diffExpected = NoSchemas
    /\ diffActual = NoSchemas
    /\ diffResult = NoDiff
    /\ planRequests = NoPlan

\* routines.diff(expected, actual) is called
DiffCall(expected, actual) ==
    /\ diffpc = "idle"
    /\ diffExpected' = expected
    /\ diffActual' = actual
    /\ diffResult' = Diff(expected, actual)
    /\ diffpc' = "diffed"
    /\ UNCHANGED planRequests
    /\ UNCHANGED <<coreVars, rmVars, getterVars, clientVars, appVars, extraVars>>

\* routines.plan is called with the missing that diff returned
PlanCall ==
    /\ diffpc = "diffed"
    /\ ~diffResult.raised
    /\ planRequests' = Plan(diffResult.missing)
    /\ diffpc' = "planned"
    /\ UNCHANGED <<diffExpected, diffActual, diffResult>>
    /\ UNCHANGED <<coreVars, rmVars, getterVars, clientVars, appVars, extraVars>>

DiffPlan ==
    \/ \E expected \in Structs, actual \in Structs: DiffCall(expected, actual)
    \/ PlanCall

(***************************************************************************)
(* The planner's and the API's functions, each called once on arguments    *)
(* drawn from small sets.                                                  *)
(***************************************************************************)
NoArgs == [none |-> TRUE]

RoutineInit ==
    /\ routine = "none"
    /\ routineInput = NoArgs
    /\ routineOutput = NoArgs

\* what _compare_columns_and_dates can write for a table: the columns it
\* lacks, the window before its first date and the window after its last
MissingEntries ==
    {Entry(c, s, e) : c \in {<<>>, <<"a">>}, s \in {<<>>, <<1, 2>>}, e \in {<<>>, <<3, 4>>}}

\* the `missing` plan is called with
Missings ==
    {[s \in Schemas |-> f] : f \in UNION {[D -> MissingEntries] : D \in (SUBSET Tables) \ {{}}}}

\* plan(missing, server_inst)
PlanMissing(missing) ==
    /\ routine = "none"
    /\ routine' = "plan"
    /\ routineInput' = missing
    /\ routineOutput' = Plan(missing)
    /\ UNCHANGED <<coreVars, rmVars, getterVars, clientVars, appVars, diffVars, daemonVars,
                   recvVars, consumerVars>>

\* what the getters' `returns` name
Returns == {{"a"}, {"b"}, {"a", "b"}, {"a", "b", "c"}}

\* vendor.getters, a dict in insertion order, as the sequence of its items
GetterLists ==
    {<<>>}
    \cup {<<[name |-> "x", returns |-> r]>> : r \in Returns}
    \cup {<<[name |-> "x", returns |-> r1], [name |-> "y", returns |-> r2]>> :
             r1 \in Returns, r2 \in Returns}

\* the `columns` of a missing resource; their order plays no part
ColumnSets == SUBSET {"a", "b", "c"}

\* _matches: the endpoints none of `columns` is outside of, in the order of
\* vendor.getters, each with the columns it returns of them
Matches(getters, columns) ==
    LET noExtras == SelectSeq(getters, LAMBDA g: {c \in columns: c \notin g.returns} = {})
    IN  [i \in 1..Len(noExtras) |->
            [name |-> noExtras[i].name,
             columns |-> {c \in columns: c \in noExtras[i].returns}]]

\* the for loop of _match from its i-th item on; best "" is None
RECURSIVE MatchFrom(_, _, _, _, _)
MatchFrom(matched_columns, i, best, score, remaining_columns) ==
    IF i > Len(matched_columns)
    THEN [best |-> best, remaining_columns |-> remaining_columns]
    ELSE LET endpoint_score ==
                 Cardinality(remaining_columns \cap matched_columns[i].columns)
         IN  IF endpoint_score > score
             THEN MatchFrom(matched_columns, i + 1, matched_columns[i].name,
                            endpoint_score,
                            remaining_columns \ matched_columns[i].columns)
             ELSE MatchFrom(matched_columns, i + 1, best, score, remaining_columns)

\* _match
Match(matched_columns, remaining_columns) ==
    MatchFrom(matched_columns, 1, "", 0, remaining_columns)

\* the while loop of _locate_endpoints and the return or raise after it.  A
\* key of the result is an endpoint's name (isName) or a Getter object.
RECURSIVE LocateLoop(_, _, _)
LocateLoop(getters, endpoints, remaining_columns) ==
    IF remaining_columns = {}
    THEN [raised |-> FALSE, endpoints |-> endpoints]
    ELSE LET matches == Matches(getters, remaining_columns)
             m == Match(matches, remaining_columns)
             found == CHOOSE i \in 1..Len(matches): matches[i].name = m.best
         IN  IF Cardinality(m.remaining_columns) = Cardinality(remaining_columns)
             THEN [raised |-> TRUE, endpoints |-> {}]
             ELSE LocateLoop(getters,
                             {e \in endpoints: e.key # m.best}
                                 \cup {[key |-> m.best, isName |-> TRUE,
                                        columns |-> matches[found].columns]},
                             m.remaining_columns)

\* _locate_endpoints(vendor, columns)
LocateEndpoints(getters, columns) == LocateLoop(getters, {}, columns)

\* _locate_endpoint(vendor, columns): the loop variable `endpoint` is the
\* name it tests after the loop, so when no getter returns every column it
\* holds the last Getter object, which is true
LocateEndpoint(getters, columns) ==
    LET covering == {i \in 1..Len(getters): \A c \in columns: c \in getters[i].returns}
        first == CHOOSE i \in covering: \A j \in covering: i <= j
    IN  IF covering # {}
        THEN [raised |-> FALSE,
              endpoints |-> {[key |-> getters[first].name, isName |-> TRUE,
                              columns |-> columns]}]
        ELSE IF getters = <<>>
        THEN LocateEndpoints(getters, columns)
        ELSE [raised |-> FALSE,
              endpoints |-> {[key |-> getters[Len(getters)].name, isName |-> FALSE,
                              columns |-> columns]}]

\* _locate_endpoint is called
LocateEndpointCall(getters, columns) ==
    /\ routine = "none"
    /\ routine' = "_locate_endpoint"
    /\ routineInput' = [getters |-> getters, columns |-> columns]
    /\ routineOutput' = LocateEndpoint(getters, columns)
    /\ UNCHANGED <<coreVars, rmVars, getterVars, clientVars, appVars, diffVars, daemonVars,
                   recvVars, consumerVars>>

\* _locate_endpoints is called
LocateEndpointsCall(getters, columns) ==
    /\ routine = "none"
    /\ routine' = "_locate_endpoints"
    /\ routineInput' = [getters |-> getters, columns |-> columns]
    /\ routineOutput' = LocateEndpoints(getters, columns)
    /\ UNCHANGED <<coreVars, rmVars, getterVars, clientVars, appVars, diffVars, daemonVars,
                   recvVars, consumerVars>>

\* Python's None, and a str
None == [type |-> "NoneType"]
Str(s) == [type |-> "str", value |-> s]

\* an exception propagates out of the call
Raised == [type |-> "raised"]

\* dict.get(key), whose default is None
Get(dict, key) == IF key \in DOMAIN dict THEN dict[key] ELSE None

\* the values a template gives to a key
FieldValues ==
    [vendor |-> {Str("V")},
     resolution |-> {Str("P1D"), Str("PT1H")},
     symbol |-> {Str("A"), Str("B")}]

\* the dicts over some of `keys`
Dicts(keys) ==
    UNION {{d \in [D -> UNION {FieldValues[k] : k \in keys}] :
               \A k \in D: d[k] \in FieldValues[k]} : D \in SUBSET keys}

\* the "common" block of a template ({} when it has none) and the items of
\* its "templates" array
Commons == Dicts({"vendor", "resolution"})
Items == Dicts({"symbol", "resolution"})

Templates ==
    {[common |-> c, templates |-> t] :
        c \in Commons, t \in UNION {[1..n -> Items] : n \in 0..MaxItems}}

\* _resolve_request: template_common.copy() updated with request_in
ResolveRequest(template_common, request_in) ==
    [k \in (DOMAIN template_common) \cup (DOMAIN request_in) |->
        IF k \in DOMAIN request_in THEN request_in[k] ELSE template_common[k]]

\* _format_request
FormatRequest(req) ==
    [vendor |-> Get(req, "vendor"),
     endpoint |-> Get(req, "endpoint"),
     params |-> [k \in {"start", "end", "resource", "resolution"} |-> Get(req, k)]]

\* generate_json_requests, the templates in the order of templates.values()
RECURSIVE GenerateJsonRequests(_)
GenerateJsonRequests(templates) ==
    IF templates = <<>> THEN <<>>
    ELSE LET template == Head(templates)
             template_common == template.common
         IN  [i \in 1..Len(template.templates) |->
                 FormatRequest(ResolveRequest(template_common, template.templates[i]))]
             \o GenerateJsonRequests(Tail(templates))

\* generate_json_requests is called with one template
GenerateJsonRequestsCall(template) ==
    /\ routine = "none"
    /\ routine' = "generate_json_requests"
    /\ routineInput' = template
    /\ routineOutput' = GenerateJsonRequests(<<template>>)
    /\ UNCHANGED <<coreVars, rmVars, getterVars, clientVars, appVars, diffVars, daemonVars,
                   recvVars, consumerVars>>

\* a datetime, to the microsecond
Datetime(sec, micro) == [type |-> "datetime", sec |-> sec, micro |-> micro]

\* a timedelta, normalised as Python keeps it
Timedelta(days, seconds) == [type |-> "timedelta", days |-> days, seconds |-> seconds]

\* dt_to_str with DTFMT, which writes whole seconds
dt_to_str(dt) ==
    IF dt = None THEN None ELSE [type |-> "str", fmt |-> "DTFMT", sec |-> dt.sec]

\* str_to_dt with DTFMT
str_to_dt(s) == IF s = None THEN None ELSE Datetime(s.sec, 0)

\* UDt.convert
UDtConvert(dt_or_str) ==
    CASE dt_or_str.type = "datetime" -> dt_to_str(dt_or_str)
      [] dt_or_str.type = "str" -> str_to_dt(dt_or_str)
      [] dt_or_str = None -> None
      [] OTHER -> Raised

\* f"{n}{unit}" when n > 0
Part(n, unit) == IF n > 0 THEN <<[n |-> n, unit |-> unit]>> ELSE <<>>

\* an ISO-8601 duration: what follows its "P"
DurationStr(parts) == [type |-> "str", fmt |-> "duration", parts |-> parts]

\* td_to_str and _td_to_str.  The divmods are by 365, 365/12 and 365/52 days,
\* done here in thirteenths of a second; the floats of the source give the
\* same on whole days and on half hours of less than a day.
td_to_str(td) ==
    LET t == 13 * (td.days * 86400 + td.seconds)
        years == t \div 409968000
        t1 == t % 409968000
        months == t1 \div 34164000
        t2 == t1 % 34164000
        weeks == t2 \div 7884000
        t3 == t2 % 7884000
        days == t3 \div 1123200
        t4 == t3 % 1123200
        hours == t4 \div 46800
        t5 == t4 % 46800
        minutes == t5 \div 780
        seconds == (t5 % 780) \div 13
    IN  DurationStr(
            Part(years, "Y") \o Part(months, "M") \o Part(weeks, "W") \o Part(days, "D")
            \o (IF hours > 0 \/ minutes > 0 \/ seconds > 0
                THEN <<[n |-> 0, unit |-> "T"]>>
                     \o Part(hours, "H") \o Part(minutes, "M") \o Part(seconds, "S")
                ELSE <<>>))

\* rd_to_str
rd_to_str(rd) ==
    DurationStr(
        Part(rd.years, "Y") \o Part(rd.months, "M") \o Part(rd.days, "D")
        \o (IF rd.hours > 0 \/ rd.minutes > 0 \/ rd.seconds > 0
            THEN <<[n |-> 0, unit |-> "T"]>>
                 \o Part(rd.hours, "H") \o Part(rd.minutes, "M") \o Part(rd.seconds, "S")
            ELSE <<>>))

\* `letter in s`
Contains(s, letter) == \E i \in 1..Len(s.parts): s.parts[i].unit = letter

\* match.group(...) or 0 of DURATION_RE: the number before `unit`, in the
\* part after the "T" (inTime) or before it
Group(s, unit, inTime) ==
    LET T == IF Contains(s, "T")
             THEN CHOOSE i \in 1..Len(s.parts): s.parts[i].unit = "T"
             ELSE Len(s.parts) + 1
        at == {i \in 1..Len(s.parts):
                  s.parts[i].unit = unit /\ (IF inTime THEN i > T ELSE i < T)}
    IN  IF at = {} THEN 0 ELSE s.parts[CHOOSE i \in at: TRUE].n

\* str_to_rd
str_to_rd(s) ==
    [type |-> "relativedelta",
     years |-> Group(s, "Y", FALSE), months |-> Group(s, "M", FALSE),
     days |-> Group(s, "D", FALSE) + 7 * Group(s, "W", FALSE),
     hours |-> Group(s, "H", TRUE), minutes |-> Group(s, "M", TRUE),
     seconds |-> Group(s, "S", TRUE)]

\* str_to_td and _str_to_td on a string with no "Y", "M" or "W", the only
\* strings UDur.convert gives it: datetime(1, 1, days + 8, hours + 1, 1,
\* seconds + 1) - datetime(1, 1, 8, 1, 1, 1), and datetime raises ValueError
\* on a field out of range
str_to_td(s) ==
    LET days == Group(s, "D", FALSE)
        hours == Group(s, "H", TRUE)
        seconds == Group(s, "S", TRUE)
    IN  IF days + 8 > 31 \/ hours + 1 > 23 \/ seconds + 1 > 59
        THEN Raised
        ELSE Timedelta(days, 3600 * hours + seconds)

\* UDur.convert; `"Y" in None` raises TypeError
UDurConvert(td_or_rd_or_str) ==
    CASE td_or_rd_or_str.type = "timedelta" -> td_to_str(td_or_rd_or_str)
      [] td_or_rd_or_str.type = "relativedelta" -> rd_to_str(td_or_rd_or_str)
      [] td_or_rd_or_str = None -> Raised
      [] OTHER ->
           IF \/ Contains(td_or_rd_or_str, "Y")
              \/ Contains(td_or_rd_or_str, "M")
              \/ Contains(td_or_rd_or_str, "W")
           THEN str_to_rd(td_or_rd_or_str)
           ELSE str_to_td(td_or_rd_or_str)

\* RequestParams.to_js
ParamsToJs(params) ==
    IF UDurConvert(params.resolution) = Raised THEN Raised
    ELSE [start |-> UDtConvert(params.start),
          end |-> UDtConvert(params.end),
          resolution |-> UDurConvert(params.resolution),
          symbol |-> params.symbol]

\* RequestParams.from_js: a value that is None is left as it is
ParamsFromJs(js) ==
    LET resolution == IF js.resolution # None THEN UDurConvert(js.resolution)
                      ELSE js.resolution
    IN  IF resolution = Raised THEN Raised
        ELSE [start |-> IF js.start # None THEN UDtConvert(js.start) ELSE js.start,
              end |-> IF js.end # None THEN UDtConvert(js.end) ELSE js.end,
              resolution |-> resolution,
              symbol |-> js.symbol]

\* Request.to_js
RequestToJs(r) ==
    IF ParamsToJs(r.params) = Raised THEN Raised
    ELSE [vendor |-> r.vendor, endpoint |-> r.endpoint, params |-> ParamsToJs(r.params)]

\* Request.from_js(js), its corr_id left at None
RequestFromJs(js) ==
    IF ParamsFromJs(js.params) = Raised THEN Raised
    ELSE [vendor |-> js.vendor, endpoint |-> js.endpoint,
          params |-> ParamsFromJs(js.params), corr_id |-> None]

Datetimes == {Datetime(sec, micro) : sec \in 1..2, micro \in 0..1}

\* whole days, and half hours of less than a day
Timedeltas ==
    {Timedelta(days, 0) : days \in 0..MaxResolutionDays}
    \cup {Timedelta(0, 1800 * h) : h \in 0..MaxHalfHours}

\* the Requests a client builds
Requests ==
    [vendor : {"V"}, endpoint : {"E"},
     params : [start : {None} \cup Datetimes,
               end : {None, Datetime(2, 0)},
               resolution : {None} \cup Timedeltas,
               symbol : {None, Str("A")}],
     corr_id : {None}]

\* a client's request.to_js() is decoded by the server's Request.from_js
RoundTripCall(r) ==
    /\ routine = "none"
    /\ routine' = "Request.from_js"
    /\ routineInput' = r
    /\ routineOutput' = IF RequestToJs(r) = Raised THEN Raised
                        ELSE RequestFromJs(RequestToJs(r))
    /\ UNCHANGED <<coreVars, rmVars, getterVars, clientVars, appVars, diffVars, daemonVars,
                   recvVars, consumerVars>>

\* Context(static_vars): the instance's __dict__ after __init__, which ends
\* by storing _immutable under "__setattr__" and "__delattr__" in it
ContextNew(static_vars) ==
    [k \in (DOMAIN static_vars) \cup {"__setattr__", "__delattr__"} |->
        IF k \in DOMAIN static_vars THEN static_vars[k] ELSE "_immutable"]

StaticVars == UNION {[D -> {"1", "2"}] : D \in SUBSET {"a", "b"}}

\* `context.key = value`: the type's __setattr__ runs, which is object's
ContextSetattr(static_vars, key, value) ==
    /\ routine = "none"
    /\ routine' = "setattr"
    /\ routineInput' = [context |-> ContextNew(static_vars), key |-> key]
    /\ routineOutput' =
           [raised |-> FALSE,
            context |-> [k \in (DOMAIN ContextNew(static_vars)) \cup {key} |->
                            IF k = key THEN value ELSE ContextNew(static_vars)[k]]]
    /\ UNCHANGED <<coreVars, rmVars, getterVars, clientVars, appVars, diffVars, daemonVars,
                   recvVars, consumerVars>>

\* `del context.key`: the type's __delattr__ runs, which is object's
ContextDelattr(static_vars, key) ==
    /\ routine = "none"
    /\ routine' = "delattr"
    /\ routineInput' = [context |-> ContextNew(static_vars), key |-> key]
    /\ routineOutput' =
           IF key \in DOMAIN ContextNew(static_vars)
           THEN [raised |-> FALSE,
                 context |-> [k \in (DOMAIN ContextNew(static_vars)) \ {key} |->
                                 ContextNew(static_vars)[k]]]
           ELSE [raised |-> TRUE, context |-> ContextNew(static_vars)]
    /\ UNCHANGED <<coreVars, rmVars, getterVars, clientVars, appVars, diffVars, daemonVars,
                   recvVars, consumerVars>>

Routines ==
    \/ \E missing \in Missings: PlanMissing(missing)
    \/ \E getters \in GetterLists, columns \in ColumnSets:
          LocateEndpointCall(getters, columns)
    \/ \E getters \in GetterLists, columns \in ColumnSets:
          LocateEndpointsCall(getters, columns)
    \/ \E template \in Templates: GenerateJsonRequestsCall(template)
    \/ \E r \in Requests: RoundTripCall(r)
    \/ \E static_vars \in StaticVars, key \in {"a", "b"}, value \in {"1", "2"}:
          ContextSetattr(static_vars, key, value)
    \/ \E static_vars \in StaticVars, key \in {"a", "b"}:
          ContextDelattr(static_vars, key)

(***************************************************************************)
(* Daemon: posts the schedule's items once per interval.                   *)
(***************************************************************************)
NoSchedule == [start |-> 0, stop |-> 0, interval |-> 1, hasItems |-> FALSE, items |-> <<>>]

\* the requests of the schedule's items: recurring ones, with no dates
ScheduleRequests ==
    {r \in Requests:
        /\ r.params.start = None
        /\ r.params.end = None
        /\ r.params.resolution \in {None, Timedelta(1, 0)}}

ItemLists == UNION {[1..n -> ScheduleRequests] : n \in 1..MaxItems}

\* Schedule.cycles
ScheduleCycles(schedule) == (schedule.stop - schedule.start) \div schedule.interval

DaemonInit ==
    /\ daemonpc = "new"
    /\ daemonRunning = FALSE
    /\ daemonCycle = 0
    /\ daemonSchedule = NoSchedule
    /\ sessionClosed = FALSE
    /\ posted = <<>>

\* Daemon.__init__(env): make_daemon builds env from the configured window
DaemonConstruct(start, stop, interval) ==
    /\ daemonpc = "new"
    /\ daemonpc' = "constructed"
    /\ daemonRunning' = FALSE
    /\ daemonCycle' = 0
    /\ daemonSchedule' = [start |-> start, stop |-> stop, interval |-> interval,
                          hasItems |-> FALSE, items |-> <<>>]
    /\ UNCHANGED <<sessionClosed, posted>>
    /\ UNCHANGED <<coreVars, rmVars, getterVars, clientVars, appVars, diffVars, routineVars,
                   recvVars, consumerVars>>

\* Daemon.set_schedule(items)
SetSchedule(items) ==
    /\ daemonpc = "constructed"
    /\ daemonSchedule' = [daemonSchedule EXCEPT !.hasItems = TRUE, !.items = items]
    /\ daemonpc' = "ready"
    /\ UNCHANGED <<daemonRunning, daemonCycle, sessionClosed, posted>>
    /\ UNCHANGED <<coreVars, rmVars, getterVars, clientVars, appVars, diffVars, routineVars,
                   recvVars, consumerVars>>

\* Daemon.start, up to the first await of run
DaemonStart ==
    /\ daemonpc = "ready"
    /\ daemonRunning' = TRUE
    /\ daemonpc' = "offset"
    /\ UNCHANGED <<daemonCycle, daemonSchedule, sessionClosed, posted>>
    /\ UNCHANGED <<coreVars, rmVars, getterVars, clientVars, appVars, diffVars, routineVars,
                   recvVars, consumerVars>>

\* a sleep of run ends: the one of START_OFFSET_S, or the one that ends an
\* iteration of the loop
DaemonWake ==
    /\ daemonpc \in {"offset", "sleep"}
    /\ daemonpc' = "loop"
    /\ UNCHANGED <<daemonRunning, daemonCycle, daemonSchedule, sessionClosed, posted>>
    /\ UNCHANGED <<coreVars, rmVars, getterVars, clientVars, appVars, diffVars, routineVars,
                   recvVars, consumerVars>>

\* the items consume posts before post raises, or all of them:
\* BaseConsumer.post sends request.to_js()
PostedItems(items) ==
    {i \in 1..Len(items): \A j \in 1..i: RequestToJs(items[j]) # Raised}

\* an iteration that calls consume, over a front end that answers each post
DaemonConsume ==
    /\ daemonpc = "loop"
    /\ daemonRunning
    /\ daemonCycle < ScheduleCycles(daemonSchedule)
    /\ LET items == daemonSchedule.items
           n == Cardinality(PostedItems(items))
       IN  /\ posted' = posted \o [i \in 1..n |-> <<daemonCycle, i>>]
           /\ IF n = Len(items)
              THEN daemonCycle' = daemonCycle + 1 /\ daemonpc' = "sleep"
              ELSE daemonCycle' = daemonCycle /\ daemonpc' = "raised"
    /\ UNCHANGED <<daemonRunning, daemonSchedule, sessionClosed>>
    /\ UNCHANGED <<coreVars, rmVars, getterVars, clientVars, appVars, diffVars, routineVars,
                   recvVars, consumerVars>>

\* an iteration that calls Daemon.stop
DaemonStop ==
    /\ daemonpc = "loop"
    /\ daemonRunning
    /\ ~(daemonCycle < ScheduleCycles(daemonSchedule))
    /\ daemonRunning' = FALSE
    /\ sessionClosed' = TRUE
    /\ daemonpc' = "sleep"
    /\ UNCHANGED <<daemonCycle, daemonSchedule, posted>>
    /\ UNCHANGED <<coreVars, rmVars, getterVars, clientVars, appVars, diffVars, routineVars,
                   recvVars, consumerVars>>

\* the while test fails and run returns
DaemonReturn ==
    /\ daemonpc = "loop"
    /\ ~daemonRunning
    /\ daemonpc' = "returned"
    /\ UNCHANGED <<daemonRunning, daemonCycle, daemonSchedule, sessionClosed, posted>>
    /\ UNCHANGED <<coreVars, rmVars, getterVars, clientVars, appVars, diffVars, routineVars,
                   recvVars, consumerVars>>

\* the task of Daemon.start, once main has set the schedule
DaemonRun == DaemonStart \/ DaemonWake \/ DaemonConsume \/ DaemonStop \/ DaemonReturn

Daemon ==
    \/ \E start \in 0..1, interval \in 1..MaxInterval:
          \E stop \in start..MaxStop: DaemonConstruct(start, stop, interval)
    \/ \E items \in ItemLists: SetSchedule(items)
    \/ DaemonRun


(***************************************************************************)
(* Connection and BaseClient.recv under App.run.  A message is a whole     *)
(* length-prefixed frame, named by its number in the order of sending.     *)
(***************************************************************************)
RecvInit ==
    /\ sockPending = <<>>
    /\ sockEof = FALSE
    /\ connBuffer = <<>>
    /\ decoded = <<>>
    /\ arrived = 0
    /\ recvResult = "none"

\* the broker writes k messages, which reach the socket together
BrokerSend(k) ==
    /\ ~sockEof
    /\ arrived + k <= MaxMessages
    /\ sockPending' = sockPending \o [i \in 1..k |-> arrived + i]
    /\ arrived' = arrived + k
    /\ UNCHANGED <<sockEof, connBuffer, decoded, recvResult>>
    /\ UNCHANGED <<coreVars, rmVars, getterVars, clientVars, appVars, diffVars,
                   routineVars, daemonVars, consumerVars>>

\* the broker closes its end: reads return what is left, then b""
BrokerClose ==
    /\ ~sockEof
    /\ sockEof' = TRUE
    /\ UNCHANGED <<sockPending, connBuffer, decoded, arrived, recvResult>>
    /\ UNCHANGED <<coreVars, rmVars, getterVars, clientVars, appVars, diffVars,
                   routineVars, daemonVars, consumerVars>>

\* Connection.transfer: `self.buffer += data`
Transfer(buffer, data) == buffer \o data

\* Connection.read: comm.read_msg takes the first message off the buffer
ReadMsg(buffer) == Head(buffer)
ReadRest(buffer) == Tail(buffer)

\* an iteration of App.run whose read(4096) returns data, the first j of the
\* messages the socket holds: recv transfers them, reads one message,
\* interprets it and returns True
Recv(j) ==
    /\ j \in 1..Len(sockPending)
    /\ sockPending' = SubSeq(sockPending, j + 1, Len(sockPending))
    /\ LET buffer == Transfer(connBuffer, SubSeq(sockPending, 1, j))
       IN  /\ decoded' = Append(decoded, ReadMsg(buffer))
           /\ connBuffer' = ReadRest(buffer)
    /\ recvResult' = "True"
    /\ UNCHANGED <<sockEof, arrived>>
    /\ UNCHANGED <<coreVars, rmVars, getterVars, clientVars, appVars, diffVars,
                   routineVars, daemonVars, consumerVars>>

\* an iteration of App.run whose read(4096) returns b"" at end of stream:
\* transfer returns False and recv returns None without reading the buffer
RecvNothing ==
    /\ sockEof
    /\ sockPending = <<>>
    /\ recvResult' = "None"
    /\ UNCHANGED <<sockPending, sockEof, connBuffer, decoded, arrived>>
    /\ UNCHANGED <<coreVars, rmVars, getterVars, clientVars, appVars, diffVars,
                   routineVars, daemonVars, consumerVars>>

\* the iterations of App.run
AppRun == (\E j \in 1..MaxMessages: Recv(j)) \/ RecvNothing

Receiver ==
    \/ \E k \in 1..MaxBurst: BrokerSend(k)
    \/ BrokerClose
    \/ \E j \in 1..MaxMessages: Recv(j)
    \/ RecvNothing

(***************************************************************************)
(* BaseConsumer (common/bases/Consumer.py) against the Server's handlers.  *)
(***************************************************************************)
ConsumerInit ==
    /\ consumerpc = "idle"
    /\ consumerRequest = None
    /\ consumerCorrId = NoCorrId
    /\ consumerResult = None

\* what the body of a consumer's POST carries as params.resource: to_js
\* writes start, end, resolution and symbol only
PostedResource(js) == "none"

\* BaseConsumer.post(request): request.to_js(), the POST as _handle_post
\* serves it, response.json() and resp['corr_id'].  An answer that is not the
\* JSON of a 200 raises in response.json().
ConsumerPost(r) ==
    /\ consumerpc = "idle"
    /\ consumerRequest' = r
    /\ consumerResult' = None
    /\ IF RequestToJs(r) = Raised
       THEN /\ consumerpc' = "raised"
            /\ consumerCorrId' = NoCorrId
            /\ UNCHANGED serverVars
       ELSE /\ HandlePostBody(TRUE, RequestToJs(r).vendor, RequestToJs(r).endpoint,
                              PostedResource(RequestToJs(r)), FALSE)
            /\ consumerpc' = IF lastHttp'.status = 200 THEN "posted" ELSE "raised"
            /\ consumerCorrId' = lastHttp'.corr_id
    /\ UNCHANGED <<rlVars, tcVars, rmVars, getterVars, clientVars, appVars, diffVars,
                   routineVars, daemonVars, recvVars>>

\* BaseConsumer.get(corr_id): the GET as _handle_get serves it; 404 gives
\* None, a 200 the Response of its JSON, and response.json() raises on a 500.
\* _roundtrip calls it with the corr_id its post returned, at once.
ConsumerGet(c) ==
    /\ consumerpc \in {"idle", "posted"}
    /\ consumerpc = "posted" => c = consumerCorrId
    /\ HandleGetBody(c)
    /\ consumerCorrId' = c
    /\ consumerpc' = IF lastHttp'.status \in {200, 404} THEN "returned" ELSE "raised"
    /\ consumerResult' = IF lastHttp'.status = 200 THEN Response(c, "rows") ELSE None
    /\ UNCHANGED consumerRequest
    /\ UNCHANGED <<rlVars, tcVars, rmVars, getterVars, clientVars, appVars, diffVars,
                   routineVars, daemonVars, recvVars>>

\* a POST of another client, whose body names a resource of the vendor
ResourcePost == \E endpoint \in Getters: HandlePost(TRUE, "V", endpoint, "ok", FALSE)

Consumer ==
    \/ \E r \in Requests: ConsumerPost(r)
    \/ \E c \in CorrIds: ConsumerGet(c)

(***************************************************************************)
(* Specifications.                                                         *)
(***************************************************************************)
Init ==
    /\ ServerInit /\ RLInit /\ TCInit
    /\ RMInit /\ GetterInit /\ ClientInit /\ AppInit /\ DiffInit
    /\ RoutineInit /\ DaemonInit
    /\ RecvInit /\ ConsumerInit

Next == StartLoop \/ Pipeline \/ Http \/ VendorDisconnect

Spec == Init /\ [][Next]_vars

NextRL == RateLimiter

SpecRL == Init /\ [][NextRL]_vars

NextTC == TimeChunker

SpecTC == Init /\ [][NextTC]_vars

\* the event loop keeps running the pipeline task while it can take a step
FairSpec == Spec /\ WF_vars(Pipeline)

NextRM == RequestManager

SpecRM == Init /\ [][NextRM]_vars

NextGetter == Getter

SpecGetter == Init /\ [][NextGetter]_vars

NextClient == Client

SpecClient == Init /\ [][NextClient]_vars

\* the outcome of the reads a handshake frame awaits: the reply, or a failure
\* that is retried or fatal
HandshakeStep ==
    \/ \E version \in ServerVersions: HandshakeReply(version)
    \/ HandshakeRetry
    \/ HandshakeExhausted

\* every read the handshake awaits completes, with data or with an exception
FairSpecClient == SpecClient /\ WF_vars(HandshakeStep)

\* App over a client whose connection opens and whose handshake reads succeed
NextApp ==
    \/ AInit
    \/ ConnectionOpened
    \/ \E version \in ServerVersions: HandshakeReply(version)
    \/ ClientDisconnect
    \/ \E r \in AppRequestIds: AppPut(r)
    \/ \E r \in AppRequestIds: UpstreamEnd(r)
    \/ \E g \in Gets, r \in AppRequestIds: AppGet(g, r)
    \/ AppWait

SpecApp == Init /\ [][NextApp]_vars

\* the event loop keeps running the tasks inside wait_for
FairSpecApp == SpecApp /\ WF_vars(AppWait)

NextDiff == DiffPlan

SpecDiff == Init /\ [][NextDiff]_vars

NextRoutines == Routines

SpecRoutines == Init /\ [][NextRoutines]_vars

NextDaemon == Daemon

SpecDaemon == Init /\ [][NextDaemon]_vars

\* the event loop keeps running the task of Daemon.start
FairSpecDaemon == SpecDaemon /\ WF_vars(DaemonRun)

NextRecv == Receiver

SpecRecv == Init /\ [][NextRecv]_vars

\* App.run keeps iterating
FairSpecRecv == SpecRecv /\ WF_vars(AppRun)

\* a consumer, the pipeline and another client's well-formed POSTs
NextConsumer ==
    \/ StartLoop
    \/ CycleDequeue
    \/ CycleStore
    \/ CycleRaise
    \/ ResourcePost
    \/ Consumer

SpecConsumer == Init /\ [][NextConsumer]_vars

(***************************************************************************)
(* Claims about the RateLimiter.                                           *)
(***************************************************************************)
\* the invocations that began in the window [t, t + RLInterval)
InvokedInWindow(t) == {i \in invoked: t <= i[2] /\ i[2] < t + RLInterval}

\* C1: in any window of length interval, at most max_requests invocations of
\* the underlying getter begin.
C1_AtMostNPerWindow ==
    max_requests > 0 =>
        \A t \in 0..MaxTime: Cardinality(InvokedInWindow(t)) <= max_requests

(***************************************************************************)
(* Claims about the TimeChunker.                                           *)
(***************************************************************************)
\* the schedule entries whose resolution is >= the request's
Applicable == {i \in 1..Len(chunk_schedule):
                  chunk_schedule[i].resolution >= tcRequest.resolution}

\* the cap that applies to the request: the maximum duration of the smallest
\* schedule resolution >= the request's resolution
ApplicableCap ==
    chunk_schedule[CHOOSE i \in Applicable:
                      \A j \in Applicable:
                          chunk_schedule[i].resolution <= chunk_schedule[j].resolution
                  ].max_duration

\* __call__ returned for a request whose duration exceeds the applicable cap
ReturnedOverCap ==
    /\ tcpc = "done"
    /\ Applicable # {}
    /\ RequestDuration(tcRequest) > ApplicableCap

CeilDiv(a, b) == (a + b - 1) \div b

\* the windows of the requests ds, in order, partition [s, e]
Partitions(ds, s, e) ==
    /\ Len(ds) >= 1
    /\ ds[1].start = s
    /\ \A i \in 1..(Len(ds) - 1): ds[i + 1].start = ds[i].end
    /\ ds[Len(ds)].end = e

RECURSIVE ConcatData(_)
\* the data of the responses to the requests ds, concatenated in order
ConcatData(ds) ==
    IF ds = <<>> THEN <<>> ELSE TargetResponse(Head(ds)).data \o ConcatData(Tail(ds))

\* C2: the windows of the sub-requests dispatched for a request over the cap
\* partition [start, end]: first starts at start, each next starts where the
\* previous ends, the last ends at end.
C2_WindowsPartitionRange ==
    ReturnedOverCap => Partitions(dispatched, tcRequest.start, tcRequest.end)

\* C3: a request over the cap is dispatched as exactly
\* ceil(request_duration / max_duration) sub-requests.
C3_CeilSubRequests ==
    ReturnedOverCap =>
        Len(dispatched) = CeilDiv(RequestDuration(tcRequest), ApplicableCap)

\* C4: for a chunked request one merged Response is returned, with the
\* original corr_id and the sub-responses' data concatenated in increasing
\* start order; the sub-requests have corr_ids of their own.
C4_MergedResponse ==
    ReturnedOverCap =>
        /\ tcResult.kind = "response"
        /\ tcResult.corr_id = tcRequest.corr_id
        /\ tcResult.data = ConcatData(dispatched)
        /\ \A i, j \in 1..Len(dispatched):
              i < j => /\ dispatched[i].start < dispatched[j].start
                       /\ dispatched[i].corr_id # dispatched[j].corr_id

(***************************************************************************)
(* Claims about the request pipeline and the HTTP front-end.               *)
(***************************************************************************)
\* the last exchange was a POST / a GET naming a corr_id
LastIsPost == lastHttp.method = "POST"
LastIsGet == lastHttp.method = "GET" /\ lastHttp.corr_id # NoCorrId

\* C5: every corr_id a POST handed out is eventually answered: a Response for
\* it appears in the response store, unless the vendor disconnects.
C5_IssuedEventuallyStored ==
    \A c \in CorrIds: (c \in issued) ~> (c \in Stored \/ ~vendorUp)

\* C6: when the getter (or its formatter) raises for the request with corr_id
\* c, that step stores a Response with data = null at c.
C6_ExceptionBecomesNullResponse ==
    [][\A c \in CorrIds:
          (c \in raised' /\ c \notin raised) =>
              (c \in DOMAIN responses' /\ responses'[c].data = "null")]_vars

\* C7: a GET for c with no Response stored answers 404 and leaves the store as
\* it was; a GET for c with the Response stored answers 200 with it and
\* removes it; no Response is delivered to more than one GET.
C7_GetDeliversOnce ==
    /\ LastIsGet =>
          IF lastHttp.present
          THEN lastHttp.status = 200 /\ lastHttp.body = "response" /\ lastHttp.removed
          ELSE lastHttp.status = 404 /\ lastHttp.storeSame
    /\ \A c \in CorrIds: delivered[c] <= 1

\* C8: a POST naming a known vendor and endpoint, with or without a resource
\* in its params, appends exactly one Request to the queue, carrying the
\* corr_id that corr_id_fn gave and that the handler returns.
C8_PostEnqueuesOneRequest ==
    (/\ LastIsPost
     /\ lastHttp.json
     /\ lastHttp.vendor \in Vendors
     /\ lastHttp.endpoint \in Getters
     /\ lastHttp.resource \in {"none", "ok"})
    => /\ lastHttp.status = 200
       /\ Len(lastHttp.appended) = 1
       /\ lastHttp.appended[1].corr_id = lastHttp.allocated
       /\ lastHttp.corr_id = lastHttp.allocated

\* C9: a POST naming an unknown vendor or an unknown endpoint, or with a
\* malformed body, is answered 400 and appends nothing to the queue.
C9_BadPostRejected400 ==
    (/\ LastIsPost
     /\ \/ ~lastHttp.json
        \/ lastHttp.vendor \notin Vendors
        \/ lastHttp.endpoint \notin Getters
        \/ lastHttp.resource = "bad")
    => /\ lastHttp.status = 400
       /\ lastHttp.appended = <<>>

\* C10: whenever the pipeline dequeues while an urgent request is queued, the
\* request it takes is an urgent one.
C10_UrgentBeforeNormal ==
    [][(pipeline = "idle" /\ pipeline' # "idle" /\ request_queue # <<>>) =>
          (request'.urgent \/ \A i \in 1..Len(request_queue): ~request_queue[i].urgent)]_vars

(***************************************************************************)
(* Claims about the priority bands of the RequestManager.                  *)
(***************************************************************************)
\* the queue of a band
BandQueue(urgent) == IF urgent THEN task_queue_urgent ELSE task_queue_normal

\* C11: within a priority band requests are dispatched in the order they were
\* enqueued: whenever cycle takes a Task from a queue, no Task put on that
\* queue before it is still waiting there.
C11_FifoWithinBand ==
    [][Len(rmTaken') > Len(rmTaken) =>
          LET task == rmTaken'[Len(rmTaken')]
          IN  \A i \in 1..Len(BandQueue(task.urgent)):
                 BandQueue(task.urgent)[i].id >= task.id]_vars

(***************************************************************************)
(* Claims about the Getter lock.                                           *)
(***************************************************************************)
\* the calls inside the raw endpoint function
InRaw == {c \in GCalls: gpc[c] = "raw"}

\* C12: at most one invocation of the raw endpoint function of a getter is in
\* flight at any time, for Getter(raw) and for
\* TimeChunker(RateLimiter(Getter(raw))).
C12_OneRawInFlight == Cardinality(InRaw) <= 1

\* C12, its case: a call of the composed getter is inside raw while another
\* call waits for the lock
C12_Witness ==
    /\ gKind = "composed"
    /\ \E c1 \in GCalls, c2 \in GCalls: gpc[c1] = "raw" /\ gpc[c2] = "waiting"

(***************************************************************************)
(* Claims about BaseClient.                                                *)
(***************************************************************************)
\* C13: connState goes DISCONNECTED, CONNECTING, HANDSHAKING, CONNECTED in
\* that order, it becomes CONNECTED only with the server version recorded,
\* and every other change is to DISCONNECTED.
C13_ConnectStateOrder ==
    [][connState' # connState =>
          \/ connState' = "DISCONNECTED"
          \/ connState' = "CONNECTING" /\ connState = "DISCONNECTED"
          \/ connState' = "HANDSHAKING" /\ connState = "CONNECTING"
          \/ connState' = "CONNECTED" /\ connState = "HANDSHAKING"
                /\ serverVersion_' # 0]_vars

\* connect has ended, and the handshake reply was read after at least one
\* failed attempt
RetrySucceeded ==
    /\ clientpc \in {"started", "failed"}
    /\ lastCall \in {"connect", "connect_unbound"}
    /\ connTime > 1

\* C14: when the handshake read fails k times, 1 <= k <= MAX_RETRIES, and the
\* next attempt succeeds, connect completes normally: CONNECTED, the server
\* version and connection time of that attempt recorded, START_API sent.
C14_RetryThenSuccess ==
    RetrySucceeded =>
        /\ lastCall = "connect"
        /\ connState = "CONNECTED"
        /\ serverVersion_ \in ServerVersions
        /\ connTime = retry + 1
        /\ startApiSent

\* the client is DISCONNECTED, reader and writer are released, and the state
\* the handshake recorded is reset
ClientReleased ==
    /\ connState = "DISCONNECTED"
    /\ ~reader
    /\ ~writer
    /\ ~Connected
    /\ serverVersion_ = 0
    /\ connTime = 0

\* C15: after BaseClient.disconnect, and after the handshake has exhausted its
\* retries, the client is DISCONNECTED, reader and writer are released and the
\* internal state is reset, whatever the state before.
C15_DisconnectReleases ==
    [][(ClientDisconnect \/ HandshakeExhausted) => ClientReleased']_vars

\* C18: over any sequence of next_request_id calls, before and after a
\* disconnect and reconnect, each id returned is greater than every id
\* returned earlier.
C18_RequestIdMonotonic ==
    \A i \in 1..Len(issuedIds): \A j \in 1..Len(issuedIds):
        i < j => issuedIds[i].id < issuedIds[j].id

\* C18, its case: an id was returned to the first client while CONNECTED, a
\* disconnect was the last call before the second client was built, and an id
\* was returned to the second client while CONNECTED
C18_Witness ==
    /\ Len(connects) >= 2
    /\ connects[2] \in {"disconnect", "disconnect_raised"}
    /\ \E i \in 1..Len(issuedIds): \E j \in 1..Len(issuedIds):
          /\ i < j
          /\ issuedIds[i].client = 1 /\ issuedIds[i].state = "CONNECTED"
          /\ issuedIds[j].client = 2 /\ issuedIds[j].state = "CONNECTED"

(***************************************************************************)
(* Claims about App.get.                                                   *)
(***************************************************************************)
\* disconnect was the last call on the client to end
AfterDisconnect == lastCall \in {"disconnect", "disconnect_raised"}

\* C16: after a disconnect, every App.get in flight whose response has not
\* arrived terminates (with a failure) instead of waiting forever.
C16_GetEndsAfterDisconnect ==
    \A g \in Gets:
        (getpc[g] = "waiting" /\ AfterDisconnect /\ appResponses[getId[g]] = <<>>)
            ~> (getpc[g] # "waiting")

\* C17: App.get(request_id) returns only after the upstream's end-of-data for
\* that id, and returns every tuple put under that id, in arrival order, and
\* no tuple put under another id.
C17_GetReturnsWholeResponse ==
    \A g \in Gets:
        getpc[g] = "returned" =>
            /\ getEnded[g]
            /\ getResult[g] = sent[getId[g]]
            /\ \A i \in 1..Len(getResult[g]): getResult[g][i][1] = getId[g]

(***************************************************************************)
(* Claims about diff and plan, for table T of schema V.                    *)
(***************************************************************************)
\* diff was called with T in expected and in actual
TInBoth ==
    /\ diffpc # "idle"
    /\ "T" \in DOMAIN TablesOf(diffExpected, "V")
    /\ "T" \in DOMAIN TablesOf(diffActual, "V")

\* the date ranges of T that diff was called with
ExpectedRange == TableOf(diffExpected, "V", "T").date_range
ActualRange == TableOf(diffActual, "V", "T").date_range

\* diff returned, and its missing has an entry for T
TReported ==
    /\ ~diffResult.raised
    /\ "V" \in DOMAIN diffResult.missing
    /\ "T" \in DOMAIN diffResult.missing["V"]

\* C19: for a table in both, with expected range [E_s, E_e] and actual range
\* [A_s, A_e]: if E_s < A_s the missing date_range has start = (E_s, A_s), and
\* if E_e > A_e it has end = (A_e, E_e).
C19_MissingDateRanges ==
    (TInBoth /\ ExpectedRange[1] # 0 /\ ActualRange[1] # 0) =>
        /\ ExpectedRange[1] < ActualRange[1] =>
              /\ TReported
              /\ diffResult.missing["V"]["T"].start = <<ExpectedRange[1], ActualRange[1]>>
        /\ ExpectedRange[2] > ActualRange[2] =>
              /\ TReported
              /\ diffResult.missing["V"]["T"].end = <<ActualRange[2], ExpectedRange[2]>>

\* storage holds every expected column of T and its range covers the expected
\* one
Covered ==
    /\ TInBoth
    /\ Range(TableOf(diffExpected, "V", "T").columns)
          \subseteq Range(TableOf(diffActual, "V", "T").columns)
    /\ ExpectedRange[1] # 0
    /\ ActualRange[1] # 0
    /\ ActualRange[1] <= ExpectedRange[1]
    /\ ExpectedRange[2] <= ActualRange[2]

\* C20: when storage covers what is expected of a table, diff reports nothing
\* missing for it and plan emits no Request for it.
C20_OnlyMissingRequested ==
    Covered =>
        /\ ~diffResult.raised
        /\ ~TReported
        /\ diffpc = "planned" =>
              /\ ~planRequests.raised
              /\ \A q \in planRequests.requests: q.resource # "T"

(***************************************************************************)
(* Further claims about the RateLimiter and the TimeChunker.               *)
(***************************************************************************)
\* C26: a call is delayed only when max_requests invocations already lie
\* within the last interval: a call that sleeps has at least max_requests
\* invocations in the interval that ends at its entry.
C26_DelayOnlyAtLimit ==
    \A c \in Calls:
        rlpc[c] = "sleep" =>
            Cardinality(InvokedInWindow(rlTime[c] - RLInterval + 1)) >= max_requests

\* C29: every request passed to the underlying getter has a duration no
\* greater than the maximum duration of the applicable schedule entry.
C29_SubRequestWithinCap ==
    (tcpc = "done" /\ Applicable # {}) =>
        \A i \in 1..Len(dispatched): RequestDuration(dispatched[i]) <= ApplicableCap

\* C30: the cap of exactly one schedule entry is applied, that of the
\* smallest resolution >= the request's, and each sub-window is dispatched
\* exactly once: no two dispatched requests start at the same time, and every
\* one but the last spans the applicable cap.
C30_OneEntryOneDispatch ==
    (tcpc = "done" /\ Applicable # {} /\ Len(dispatched) > 1) =>
        /\ \A i, j \in 1..Len(dispatched):
              i < j => dispatched[i].start # dispatched[j].start
        /\ \A i \in 1..(Len(dispatched) - 1):
              RequestDuration(dispatched[i]) = ApplicableCap


(* Claims about the planner's and the API's functions and the Daemon. *)
\* the date windows of a missing resource
Windows(entry) == {entry.start, entry.end} \ {<<>>}

\* C21: for each missing resource plan emits exactly one Request per missing
\* date window, with the window's endpoints as its start and end: two for a
\* backfill and a frontfill window, one for one of them
C21_OneRequestPerWindow ==
    (routine = "plan"
        /\ \A s \in DOMAIN routineInput: \A t \in DOMAIN routineInput[s]:
              Windows(routineInput[s][t]) # {}) =>
        /\ ~routineOutput.raised
        /\ \A s \in DOMAIN routineInput: \A t \in DOMAIN routineInput[s]:
              LET requests == {r \in routineOutput.requests:
                                  r.vendor = s /\ r.resource = t}
              IN  /\ Cardinality(requests) = Cardinality(Windows(routineInput[s][t]))
                  /\ \A w \in Windows(routineInput[s][t]):
                        \E r \in requests: r.start = w[1] /\ r.end = w[2]

\* the getters that return every one of the columns
Covering(getters, columns) ==
    {i \in 1..Len(getters): columns \subseteq getters[i].returns}

\* C22: when some endpoints each return all the required columns, the one
\* selected has the fewest extra columns, whatever the order of the getters
C22_FewestExtras ==
    (routine = "_locate_endpoint"
        /\ routineInput.columns # {}
        /\ Covering(routineInput.getters, routineInput.columns) # {}) =>
        /\ ~routineOutput.raised
        /\ \E i \in Covering(routineInput.getters, routineInput.columns):
              /\ routineOutput.endpoints =
                     {[key |-> routineInput.getters[i].name, isName |-> TRUE,
                       columns |-> routineInput.columns]}
              /\ \A j \in Covering(routineInput.getters, routineInput.columns):
                    Cardinality(routineInput.getters[i].returns \ routineInput.columns)
                        <= Cardinality(routineInput.getters[j].returns \ routineInput.columns)

\* what the getter under a key of the result returns
ReturnsOf(getters, key) ==
    UNION {getters[i].returns : i \in {j \in 1..Len(getters): getters[j].name = key}}

\* C23: when no single endpoint returns all the required columns, the
\* selection covers every required column if the endpoints jointly return
\* them all, and raises if some required column is returned by none
C23_JointCover ==
    (routine \in {"_locate_endpoint", "_locate_endpoints"}
        /\ Covering(routineInput.getters, routineInput.columns) = {}) =>
        IF routineInput.columns \subseteq
               UNION {routineInput.getters[i].returns : i \in 1..Len(routineInput.getters)}
        THEN /\ ~routineOutput.raised
             /\ routineInput.columns \subseteq
                    UNION {ReturnsOf(routineInput.getters, e.key) : e \in routineOutput.endpoints}
        ELSE routineOutput.raised

\* the field of a flattened request: vendor and endpoint are its own, the
\* others are under its params; None when it has no such field
RequestField(req, k) ==
    IF k \in {"vendor", "endpoint"} THEN req[k] ELSE Get(req.params, k)

\* C25: a template with n items flattens to n requests, each with every
\* field its item sets from the item and every other field from common
C25_FlattenTemplate ==
    routine = "generate_json_requests" =>
        /\ Len(routineOutput) = Len(routineInput.templates)
        /\ \A i \in 1..Len(routineInput.templates):
              \A k \in {"vendor", "endpoint", "start", "end", "resolution", "resource", "symbol"}:
                 RequestField(routineOutput[i], k) =
                     IF k \in DOMAIN routineInput.templates[i]
                     THEN routineInput.templates[i][k]
                     ELSE Get(routineInput.common, k)

\* C27: Request.from_js(r.to_js()) succeeds and equals r in vendor, endpoint
\* and every params field, also when fields of the params are unset
C27_RoundTripIdentity ==
    routine = "Request.from_js" =>
        /\ routineOutput # Raised
        /\ routineOutput.vendor = routineInput.vendor
        /\ routineOutput.endpoint = routineInput.endpoint
        /\ routineOutput.params = routineInput.params

\* C28: setting or deleting an attribute of a Context raises and leaves the
\* context's values as they were
C28_ContextImmutable ==
    routine \in {"setattr", "delattr"} =>
        /\ routineOutput.raised
        /\ routineOutput.context = routineInput.context

\* the posts of item i in cycle c
PostsOf(c, i) == {k \in 1..Len(posted): posted[k] = <<c, i>>}

\* C24: once started the daemon posts every item exactly once in each of
\* (stop - start) / interval cycles and no more, then closes its session, and
\* its run loop ends
C24_DaemonCompletes ==
    /\ [](daemonpc = "returned" =>
            /\ sessionClosed
            /\ Len(posted) = Len(daemonSchedule.items)
                  * ((daemonSchedule.stop - daemonSchedule.start) \div daemonSchedule.interval)
            /\ \A i \in 1..Len(daemonSchedule.items):
                  \A c \in 0..(((daemonSchedule.stop - daemonSchedule.start)
                                   \div daemonSchedule.interval) - 1):
                     Cardinality(PostsOf(c, i)) = 1)
    /\ (daemonpc = "offset" ~> daemonpc = "returned")


(* Claims about the pipeline under load and after an error. *)
\* C31: while a request is suspended inside its getter, the pipeline can
\* dequeue a queued request for another endpoint
C31_ConcurrentInFlight ==
    (pipeline = "getter"
        /\ request_queue # <<>>
        /\ Head(request_queue).endpoint \in Getters
        /\ Head(request_queue).endpoint # request.endpoint) =>
        ENABLED CycleDequeue

\* the corr_ids of the requests in the queue
Queued == {request_queue[i].corr_id : i \in 1..Len(request_queue)}

\* C32: after an exception in the processing of one request the loop keeps
\* running: the requests still in the queue are dequeued
C32_LoopSurvivesException ==
    \A c \in CorrIds: (raised # {} /\ c \in Queued) ~> (c \notin Queued)

\* C33: a request is dequeued once, and when its cycle ends exactly one entry
\* has been written to the response store, under the corr_id its POST returned
C33_TraversesOnce ==
    [][/\ (pipeline # "getter" /\ pipeline' = "getter") =>
              /\ request'.corr_id \in issued
              /\ request'.corr_id \notin Queued'
              /\ request'.corr_id \notin Stored
              /\ request'.corr_id \notin raised
       /\ (pipeline = "getter" /\ pipeline' # "getter") =>
              /\ request.corr_id \notin Stored
              /\ Stored' = Stored \cup {request.corr_id}
              /\ responses'[request.corr_id].corr_id = request.corr_id]_vars


C36_FailureDoesNotStop ==
    /\ [](\A c \in 0..MaxStop: \A i \in 1..MaxItems: Cardinality(PostsOf(c, i)) <= 1)
    /\ (daemonpc = "raised") ~>
           (daemonpc # "raised" /\ daemonCycle = ScheduleCycles(daemonSchedule))


(* Further claims about diff and plan. *)
\* table T is expected, with columns and a date range, and storage has no
\* table T
TAbsent ==
    /\ "T" \in DOMAIN TablesOf(diffExpected, "V")
    /\ "T" \notin DOMAIN TablesOf(diffActual, "V")
    /\ TableOf(diffExpected, "V", "T").columns # <<>>
    /\ TableOf(diffExpected, "V", "T").date_range[1] # 0

\* the requests plan made for table T
TRequests == {q \in planRequests.requests: q.resource = "T"}

\* C37: for an expected table that storage lacks, diff does not raise and the
\* requests of plan have concrete starts and ends, lie within [E_s, E_e] and
\* together cover it
C37_AbsentTableCovered ==
    (TAbsent /\ diffpc # "idle") =>
        /\ ~diffResult.raised
        /\ diffpc = "planned" =>
              LET E_s == TableOf(diffExpected, "V", "T").date_range[1]
                  E_e == TableOf(diffExpected, "V", "T").date_range[2]
              IN  /\ ~planRequests.raised
                  /\ \A q \in TRequests:
                        q.start # 0 /\ q.end # 0 /\ E_s <= q.start /\ q.end <= E_e
                  /\ \A d \in E_s..E_e:
                        \E q \in TRequests: q.start <= d /\ d <= q.end

\* the tables of schema V in a structure
TablesIn(struct) == DOMAIN TablesOf(struct, "V")

\* the tables under schema V of one of diff's projections
Projected(projection) ==
    IF "V" \in DOMAIN projection THEN DOMAIN projection["V"] ELSE {}

\* C38: diff(expected, actual) does not raise; missing holds no schema or
\* table that exists only in storage and holds every expected one that storage
\* lacks, and orphaned holds exactly what is in storage and not expected
C38_DiffClassifies ==
    diffpc # "idle" =>
        /\ ~diffResult.raised
        /\ DOMAIN diffResult.missing \subseteq DOMAIN diffExpected
        /\ (DOMAIN diffExpected) \ (DOMAIN diffActual) \subseteq DOMAIN diffResult.missing
        /\ (DOMAIN diffActual) \ (DOMAIN diffExpected) \subseteq DOMAIN diffResult.orphaned
        /\ Projected(diffResult.missing) = TablesIn(diffExpected) \ TablesIn(diffActual)
        /\ Projected(diffResult.orphaned) = TablesIn(diffActual) \ TablesIn(diffExpected)


(* Claims about the broker socket and the consumer. *)
\* C35: every message that arrived on the socket is eventually dispatched to
\* the decoder, and the decoder gets the messages in arrival order
C35_EveryMessageDispatched ==
    /\ [](\A i \in 1..Len(decoded): decoded[i] = i)
    /\ \A m \in 1..MaxMessages: (arrived >= m) ~> (Len(decoded) >= m)

\* C39: a round trip whose request encodes ends by returning, and a get for a
\* request the pipeline completes returns its Response, never None
C39_RoundtripReturnsResponse ==
    /\ (consumerRequest # None /\ RequestToJs(consumerRequest) # Raised) =>
           consumerpc # "raised"
    /\ (consumerpc = "returned" /\ consumerCorrId \in issued \ raised) =>
           consumerResult = Response(consumerCorrId, "rows")

====
